---- MODULE Spec2Model ----
(***************************************************************************)
(* OAuth2 token acquisition core of graph-rs-sdk: the client-secret and    *)
(* the authorization-code-certificate credentials, the request serializer, *)
(* the token executor (blocking and non-blocking) and the token cache with *)
(* expiry-aware silent renewal.                                            *)
(***************************************************************************)
EXTENDS Integers, Sequences, FiniteSets, TLC

VARIABLES
    cred,        \* the credential the calls are made on
    serializer,  \* the credential's OAuthSerializer (kept between calls)
    cache,       \* token_cache: cache identity -> Token
    now,         \* wall clock, seconds
    posts,       \* number of HTTP POSTs sent to the token endpoint so far
    pc,          \* per execution mode: "idle", or "sent" (request in flight)
    call,        \* per execution mode: the call that is in flight
    ret,         \* the outcome of the call that returned last
    sent,        \* the token endpoint's log: POST number -> whom it was for
    webview      \* the interactive authentication's window and its outcome

vars == <<cred, serializer, cache, now, posts, pc, call, ret, sent, webview>>

-----------------------------------------------------------------------------
(* Bounds of the model *)

MaxLen == 2      \* longest string drawn for a trimmed field
MaxPosts == 3    \* POSTs sent in one behaviour
MaxTime == 3900  \* the clock stops here

(* Program constants *)

MarginSeconds == 300  \* time::Duration::minutes(5)

-----------------------------------------------------------------------------
(* Values *)

None == <<>>
Some(x) == <<x>>
IsSome(o) == o # <<>>
Unwrap(o) == o[1]

Ok(v) == [ok |-> TRUE, val |-> v]
Err(e) == [ok |-> FALSE, err |-> e]

Modes == {"blocking", "async"}

(* Url::parse followed by as_str: text without a scheme is refused, an      *)
(* empty path becomes "/", any other absolute URL comes back as written     *)
Url_parse(s) ==
    CASE s = "" -> Err([kind |-> "Url", name |-> "relative URL without a base", message |-> <<>>])
      [] s = "app" -> Err([kind |-> "Url", name |-> "relative URL without a base", message |-> <<>>])
      [] s = "https://app" -> Ok("https://app/")
      [] OTHER -> Ok(s)

Chars == {" ", "x"}
Strs == UNION {[1..n -> Chars] : n \in 0..MaxLen}

Steps == {300, 3295}
ExpiresIn == {200, 3600}

-----------------------------------------------------------------------------
(* str::trim, str::is_empty *)

RECURSIVE trim_start(_)
trim_start(s) ==
    IF s # <<>> /\ Head(s) = " " THEN trim_start(Tail(s)) ELSE s

RECURSIVE trim_end(_)
trim_end(s) ==
    IF s # <<>> /\ s[Len(s)] = " " THEN trim_end(SubSeq(s, 1, Len(s) - 1)) ELSE s

(* Mutant: the field is tested as given, not trimmed *)
trim_not_applied(s) == s

trim(s) == trim_end(trim_start(s))

is_empty(s) == Len(s) = 0

(* Uuid: the 128-bit value; to_string is the hyphenated lower-case form *)

Uuids == {0, 1}

HexDigit == <<"0", "1", "2", "3", "4", "5", "6", "7",
              "8", "9", "a", "b", "c", "d", "e", "f">>

uuid_to_string(u) == "00000000-0000-0000-0000-00000000000" \o HexDigit[u + 1]

(* Mutant: the nil UUID is not recognised *)
is_nil_never(u) == FALSE

is_nil(u) == u = 0

-----------------------------------------------------------------------------
(* Authority and AzureCloudInstance; the endpoint resolver *)

AzureCloudInstances == {"AzurePublic", "AzureChina", "AzureGermany", "AzureUsGovernment"}

cloud_as_ref(cloud) ==
    CASE cloud = "AzurePublic" -> "https://login.microsoftonline.com"
      [] cloud = "AzureChina" -> "https://login.chinacloudapi.cn"
      [] cloud = "AzureGermany" -> "https://login.microsoftonline.de"
      [] cloud = "AzureUsGovernment" -> "https://login.microsoftonline.us"

Common == [variant |-> "Common", tenant |-> ""]
TenantId(t) == [variant |-> "TenantId", tenant |-> t]

authority_as_ref(a) == IF a.variant = "TenantId" THEN a.tenant ELSE "common"

resolve(cloud, a) ==
    IF a.variant = "TenantId" /\ Len(a.tenant) = 0
    THEN Err([kind |-> "MissingTenantId", name |-> "tenant_id", message |-> None])
    ELSE Ok([authorization_endpoint |->
                 cloud_as_ref(cloud) \o "/" \o authority_as_ref(a) \o "/oauth2/v2.0/authorize",
             token_endpoint |->
                 cloud_as_ref(cloud) \o "/" \o authority_as_ref(a) \o "/oauth2/v2.0/token"])

-----------------------------------------------------------------------------
(* OAuthParameter::alias: the name of a parameter on the wire *)
alias(p) ==
    CASE p = "ClientId" -> "client_id"
      [] p = "ClientSecret" -> "client_secret"
      [] p = "GrantType" -> "grant_type"
      [] p = "Scope" -> "scope"
      [] p = "ClientAssertion" -> "client_assertion"
      [] p = "ClientAssertionType" -> "client_assertion_type"
      [] p = "RedirectUri" -> "redirect_uri"
      [] p = "CodeVerifier" -> "code_verifier"
      [] p = "RefreshToken" -> "refresh_token"
      [] p = "AuthorizationCode" -> "code"
      [] p = "TokenUrl" -> "token_url"
      [] p = "AccessTokenUrl" -> "access_token_url"
      [] p = "AuthorizationUrl" -> "authorization_url"
      [] p = "State" -> "state"

(* OAuthSerializer: a parameter map and the scopes, in insertion order *)

NewSerializer == [params |-> <<>>, scopes |-> <<>>]

SerHas(ser, k) == k \in DOMAIN ser.params

SerPut(ser, k, v) ==
    [ser EXCEPT !.params = [x \in (DOMAIN ser.params) \cup {k} |->
                               IF x = k THEN v ELSE ser.params[x]]]

SerAuthority(ser, cloud, a) ==
    LET r == resolve(cloud, a) IN
    IF r.ok
    THEN SerPut(SerPut(SerPut(ser, "TokenUrl", r.val.token_endpoint),
                       "AccessTokenUrl", r.val.token_endpoint),
                "AuthorizationUrl", r.val.authorization_endpoint)
    ELSE ser

RECURSIVE extend_scopes(_, _)
extend_scopes(ser, scope) ==
    IF scope = <<>> THEN ser
    ELSE LET s == Head(scope)
             seen == \E i \in 1..Len(ser.scopes) : ser.scopes[i] = s
         IN extend_scopes(IF seen THEN ser
                          ELSE [ser EXCEPT !.scopes = Append(@, s)],
                          Tail(scope))

RECURSIVE join_scopes(_)
join_scopes(scopes) ==
    IF scopes = <<>> THEN ""
    ELSE IF Len(scopes) = 1 THEN Head(scopes)
    ELSE Head(scopes) \o " " \o join_scopes(Tail(scopes))

(* One (key, value) of the form, when the serializer holds the parameter *)
SerFieldPresent(ser, k) ==
    IF k = "Scope" THEN ser.scopes # <<>> ELSE SerHas(ser, k)

SerFieldValue(ser, k) ==
    IF k = "Scope" THEN join_scopes(ser.scopes) ELSE ser.params[k]

SeqToSet(q) == {q[i] : i \in 1..Len(q)}

as_credential_map(ser, optional_fields, required_fields) ==
    LET missing == {i \in 1..Len(required_fields) :
                       ~SerFieldPresent(ser, required_fields[i])}
    IN IF missing # {}
       THEN Err([kind |-> "RequiredValue",
                 name |-> alias(required_fields[CHOOSE i \in missing :
                                                    \A j \in missing : i <= j]),
                 message |-> None])
       ELSE LET fields == SeqToSet(required_fields) \cup
                          {k \in SeqToSet(optional_fields) : SerFieldPresent(ser, k)}
            IN Ok([k \in {alias(f) : f \in fields} |->
                      SerFieldValue(ser, CHOOSE f \in fields : alias(f) = k)])

-----------------------------------------------------------------------------
(* AuthorizationFailure constructors *)

AF_result(name) == Err([kind |-> "RequiredValue", name |-> name, message |-> None])

AF_msg_result(name, message) ==
    Err([kind |-> "RequiredValue", name |-> name, message |-> Some(message)])

AF_msg_err(name, message) ==
    Err([kind |-> "RequiredValue", name |-> name, message |-> Some(message)])

-----------------------------------------------------------------------------
(* Credentials.  A field that the code trims is a sequence of characters;   *)
(* a run of non-blank characters may be written as one element.             *)

DefaultScope == "https://graph.microsoft.com/.default"

CLIENT_ASSERTION_TYPE == <<"urn:ietf:params:oauth:client-assertion-type:jwt-bearer">>

(* AppConfig::new_with_client_id / new_with_tenant_and_client_id: the cache  *)
(* identity is made when the AppConfig is, from what its constructor is     *)
(* given: the client id and the tenant.                                     *)
generate_cache_id(client_id, authority) ==
    <<uuid_to_string(client_id), authority_as_ref(authority)>>

ClientSecretCredential(client_id, client_secret, scope, authority, headers) ==
    [kind |-> "ClientSecret",
     client_id |-> client_id,
     cache_id |-> generate_cache_id(client_id, authority),
     client_secret |-> client_secret,
     scope |-> scope,
     authority |-> authority,
     azure_cloud_instance |-> "AzurePublic",
     extra_header_parameters |-> headers]

CertificateCredential(client_id, client_assertion, client_assertion_type, authorization_code, refresh_token, redirect_uri, code_verifier, scope, authority, headers) ==
    [kind |-> "Certificate",
     client_id |-> client_id,
     client_assertion |-> client_assertion,
     client_assertion_type |-> client_assertion_type,
     authorization_code |-> authorization_code,
     refresh_token |-> refresh_token,
     redirect_uri |-> redirect_uri,
     code_verifier |-> code_verifier,
     scope |-> scope,
     authority |-> authority,
     azure_cloud_instance |-> "AzurePublic",
     extra_header_parameters |-> headers]

(* Mutant: a URL the serializer already holds is extended, not resolved again *)
uri_appending(c, ser) ==
    LET key == IF c.kind = "ClientSecret" THEN "TokenUrl" ELSE "AccessTokenUrl"
        s2 == IF SerHas(ser, key)
              THEN SerPut(ser, key, ser.params[key] \o "/")
              ELSE SerAuthority(ser, c.azure_cloud_instance, c.authority)
    IN [res |-> IF SerHas(s2, key)
                THEN Url_parse(s2.params[key])
                ELSE AF_msg_err(alias(key), "Internal Error"),
        ser |-> s2,
        cred |-> c]

(* ClientSecretCredential::uri / AuthorizationCodeCertificateCredential::uri *)
uri(c, ser) ==
    LET s2 == SerAuthority(ser, c.azure_cloud_instance, c.authority)
        key == IF c.kind = "ClientSecret" THEN "TokenUrl" ELSE "AccessTokenUrl"
    IN [res |-> IF SerHas(s2, key)
                THEN Url_parse(s2.params[key])
                ELSE AF_msg_err(alias(key), "Internal Error"),
        ser |-> s2,
        cred |-> c]

(* Mutant: client id and secret are put into the form as well *)
ClientSecret_form_urlencode_with_credentials(c, ser) ==
    LET client_id == uuid_to_string(c.client_id) IN
    IF Len(client_id) = 0 \/ is_nil(c.client_id)
    THEN [res |-> AF_result(alias("ClientId")), ser |-> ser, cred |-> c]
    ELSE IF is_empty(trim(c.client_secret))
    THEN [res |-> AF_result(alias("ClientSecret")), ser |-> ser, cred |-> c]
    ELSE LET s1 == SerPut(SerPut(SerPut(ser, "ClientId", client_id),
                                 "ClientSecret", c.client_secret),
                          "GrantType", "client_credentials")
             s2 == IF c.scope = <<>>
                   THEN extend_scopes(s1, <<DefaultScope>>)
                   ELSE extend_scopes(s1, c.scope)
         IN [res |-> as_credential_map(s2, <<"Scope">>,
                                       <<"ClientId", "ClientSecret", "GrantType">>),
             ser |-> s2,
             cred |-> c]

(* Mutant: the secret is tested for emptiness without being trimmed *)
ClientSecret_form_urlencode_untrimmed(c, ser) ==
    LET client_id == uuid_to_string(c.client_id) IN
    IF Len(client_id) = 0 \/ is_nil(c.client_id)
    THEN [res |-> AF_result(alias("ClientId")), ser |-> ser, cred |-> c]
    ELSE IF is_empty(c.client_secret)
    THEN [res |-> AF_result(alias("ClientSecret")), ser |-> ser, cred |-> c]
    ELSE LET s1 == SerPut(SerPut(SerPut(ser, "ClientId", client_id),
                                 "ClientSecret", c.client_secret),
                          "GrantType", "client_credentials")
             s2 == IF c.scope = <<>>
                   THEN extend_scopes(s1, <<DefaultScope>>)
                   ELSE extend_scopes(s1, c.scope)
         IN [res |-> as_credential_map(s2, <<"Scope">>, <<"GrantType">>),
             ser |-> s2,
             cred |-> c]

(* Mutant: an empty scope list is not replaced by the default scope *)
ClientSecret_form_urlencode_no_default_scope(c, ser) ==
    LET client_id == uuid_to_string(c.client_id) IN
    IF Len(client_id) = 0 \/ is_nil(c.client_id)
    THEN [res |-> AF_result(alias("ClientId")), ser |-> ser, cred |-> c]
    ELSE IF is_empty(trim(c.client_secret))
    THEN [res |-> AF_result(alias("ClientSecret")), ser |-> ser, cred |-> c]
    ELSE LET s1 == SerPut(SerPut(SerPut(ser, "ClientId", client_id),
                                 "ClientSecret", c.client_secret),
                          "GrantType", "client_credentials")
             s2 == extend_scopes(s1, c.scope)
         IN [res |-> as_credential_map(s2, <<"Scope">>, <<"GrantType">>),
             ser |-> s2,
             cred |-> c]

(* Mutant: every call adds the scopes once more to those the serializer holds *)
ClientSecret_form_urlencode_scopes_appended(c, ser) ==
    LET client_id == uuid_to_string(c.client_id) IN
    IF Len(client_id) = 0 \/ is_nil(c.client_id)
    THEN [res |-> AF_result(alias("ClientId")), ser |-> ser, cred |-> c]
    ELSE IF is_empty(trim(c.client_secret))
    THEN [res |-> AF_result(alias("ClientSecret")), ser |-> ser, cred |-> c]
    ELSE LET s1 == SerPut(SerPut(SerPut(ser, "ClientId", client_id),
                                 "ClientSecret", c.client_secret),
                          "GrantType", "client_credentials")
             s2 == IF c.scope = <<>>
                   THEN [s1 EXCEPT !.scopes = @ \o <<DefaultScope>>]
                   ELSE [s1 EXCEPT !.scopes = @ \o c.scope]
         IN [res |-> as_credential_map(s2, <<"Scope">>, <<"GrantType">>),
             ser |-> s2,
             cred |-> c]

(* ClientSecretCredential::form_urlencode *)
ClientSecret_form_urlencode(c, ser) ==
    LET client_id == uuid_to_string(c.client_id) IN
    IF Len(client_id) = 0 \/ is_nil(c.client_id)
    THEN [res |-> AF_result(alias("ClientId")), ser |-> ser, cred |-> c]
    ELSE IF is_empty(trim(c.client_secret))
    THEN [res |-> AF_result(alias("ClientSecret")), ser |-> ser, cred |-> c]
    ELSE LET s1 == SerPut(SerPut(SerPut(ser, "ClientId", client_id),
                                 "ClientSecret", c.client_secret),
                          "GrantType", "client_credentials")
             s2 == IF c.scope = <<>>
                   THEN extend_scopes(s1, <<DefaultScope>>)
                   ELSE extend_scopes(s1, c.scope)
         IN [res |-> as_credential_map(s2, <<"Scope">>, <<"GrantType">>),
             ser |-> s2,
             cred |-> c]

(* ClientSecretCredential::basic_auth *)
ClientSecret_basic_auth(c) ==
    Some(<<uuid_to_string(c.client_id), c.client_secret>>)

(* Mutant: the refresh-token branch names the authorization_code grant *)
Certificate_form_urlencode_refresh_as_code(c, ser) ==
    IF is_empty(trim(c.client_id))
    THEN [res |-> AF_result(alias("ClientId")), ser |-> ser, cred |-> c]
    ELSE IF is_empty(trim(c.client_assertion))
    THEN [res |-> AF_result(alias("ClientAssertion")), ser |-> ser, cred |-> c]
    ELSE
    LET c1 == IF is_empty(trim(c.client_assertion_type))
              THEN [c EXCEPT !.client_assertion_type = CLIENT_ASSERTION_TYPE]
              ELSE c
        s1 == extend_scopes(
                  SerPut(SerPut(SerPut(ser, "ClientId", c1.client_id),
                                "ClientAssertion", c1.client_assertion),
                         "ClientAssertionType", c1.client_assertion_type),
                  c1.scope)
        s2 == IF IsSome(c1.redirect_uri)
              THEN SerPut(s1, "RedirectUri", Unwrap(c1.redirect_uri))
              ELSE s1
        s3 == IF IsSome(c1.code_verifier)
              THEN SerPut(s2, "CodeVerifier", Unwrap(c1.code_verifier))
              ELSE s2
    IN IF IsSome(c1.refresh_token)
       THEN IF is_empty(trim(Unwrap(c1.refresh_token)))
            THEN [res |-> AF_msg_result(alias("RefreshToken"),
                              "refresh_token is empty - cannot be an empty string"),
                  ser |-> s3, cred |-> c1]
            ELSE LET s4 == SerPut(SerPut(s3, "RefreshToken", Unwrap(c1.refresh_token)),
                                  "GrantType", "authorization_code")
                 IN [res |-> as_credential_map(s4, <<"Scope">>,
                                 <<"RefreshToken", "ClientId", "GrantType",
                                   "ClientAssertion", "ClientAssertionType">>),
                     ser |-> s4, cred |-> c1]
       ELSE IF IsSome(c1.authorization_code)
       THEN IF is_empty(trim(Unwrap(c1.authorization_code)))
            THEN [res |-> AF_msg_result(alias("AuthorizationCode"),
                              "authorization_code is empty - cannot be an empty string"),
                  ser |-> s3, cred |-> c1]
            ELSE LET s4 == SerPut(SerPut(s3, "AuthorizationCode", Unwrap(c1.authorization_code)),
                                  "GrantType", "authorization_code")
                 IN [res |-> as_credential_map(s4, <<"Scope", "CodeVerifier">>,
                                 <<"AuthorizationCode", "ClientId", "GrantType", "RedirectUri",
                                   "ClientAssertion", "ClientAssertionType">>),
                     ser |-> s4, cred |-> c1]
       ELSE [res |-> AF_msg_result(alias("AuthorizationCode") \o " or " \o alias("RefreshToken"),
                         "Either authorization code or refresh token is required"),
             ser |-> s3, cred |-> c1]

(* Mutant: with neither secret set the form is returned without a grant *)
Certificate_form_urlencode_secret_optional(c, ser) ==
    IF is_empty(trim(c.client_id))
    THEN [res |-> AF_result(alias("ClientId")), ser |-> ser, cred |-> c]
    ELSE IF is_empty(trim(c.client_assertion))
    THEN [res |-> AF_result(alias("ClientAssertion")), ser |-> ser, cred |-> c]
    ELSE
    LET c1 == IF is_empty(trim(c.client_assertion_type))
              THEN [c EXCEPT !.client_assertion_type = CLIENT_ASSERTION_TYPE]
              ELSE c
        s1 == extend_scopes(
                  SerPut(SerPut(SerPut(ser, "ClientId", c1.client_id),
                                "ClientAssertion", c1.client_assertion),
                         "ClientAssertionType", c1.client_assertion_type),
                  c1.scope)
        s2 == IF IsSome(c1.redirect_uri)
              THEN SerPut(s1, "RedirectUri", Unwrap(c1.redirect_uri))
              ELSE s1
        s3 == IF IsSome(c1.code_verifier)
              THEN SerPut(s2, "CodeVerifier", Unwrap(c1.code_verifier))
              ELSE s2
    IN IF IsSome(c1.refresh_token)
       THEN IF is_empty(trim(Unwrap(c1.refresh_token)))
            THEN [res |-> AF_msg_result(alias("RefreshToken"),
                              "refresh_token is empty - cannot be an empty string"),
                  ser |-> s3, cred |-> c1]
            ELSE LET s4 == SerPut(SerPut(s3, "RefreshToken", Unwrap(c1.refresh_token)),
                                  "GrantType", "refresh_token")
                 IN [res |-> as_credential_map(s4, <<"Scope">>,
                                 <<"RefreshToken", "ClientId", "GrantType",
                                   "ClientAssertion", "ClientAssertionType">>),
                     ser |-> s4, cred |-> c1]
       ELSE IF IsSome(c1.authorization_code)
       THEN IF is_empty(trim(Unwrap(c1.authorization_code)))
            THEN [res |-> AF_msg_result(alias("AuthorizationCode"),
                              "authorization_code is empty - cannot be an empty string"),
                  ser |-> s3, cred |-> c1]
            ELSE LET s4 == SerPut(SerPut(s3, "AuthorizationCode", Unwrap(c1.authorization_code)),
                                  "GrantType", "authorization_code")
                 IN [res |-> as_credential_map(s4, <<"Scope", "CodeVerifier">>,
                                 <<"AuthorizationCode", "ClientId", "GrantType", "RedirectUri",
                                   "ClientAssertion", "ClientAssertionType">>),
                     ser |-> s4, cred |-> c1]
       ELSE [res |-> as_credential_map(s3, <<"Scope">>,
                         <<"ClientId", "ClientAssertion", "ClientAssertionType">>),
             ser |-> s3, cred |-> c1]

(* a refresh request that also sends what the serializer kept from an     *)
(* earlier authorization-code request                                     *)
Certificate_form_urlencode_refresh_keeps_code(c, ser) ==
    IF is_empty(trim(c.client_id))
    THEN [res |-> AF_result(alias("ClientId")), ser |-> ser, cred |-> c]
    ELSE IF is_empty(trim(c.client_assertion))
    THEN [res |-> AF_result(alias("ClientAssertion")), ser |-> ser, cred |-> c]
    ELSE
    LET c1 == IF is_empty(trim(c.client_assertion_type))
              THEN [c EXCEPT !.client_assertion_type = CLIENT_ASSERTION_TYPE]
              ELSE c
        s1 == extend_scopes(
                  SerPut(SerPut(SerPut(ser, "ClientId", c1.client_id),
                                "ClientAssertion", c1.client_assertion),
                         "ClientAssertionType", c1.client_assertion_type),
                  c1.scope)
        s2 == IF IsSome(c1.redirect_uri)
              THEN SerPut(s1, "RedirectUri", Unwrap(c1.redirect_uri))
              ELSE s1
        s3 == IF IsSome(c1.code_verifier)
              THEN SerPut(s2, "CodeVerifier", Unwrap(c1.code_verifier))
              ELSE s2
    IN IF IsSome(c1.refresh_token)
       THEN IF is_empty(trim(Unwrap(c1.refresh_token)))
            THEN [res |-> AF_msg_result(alias("RefreshToken"),
                              "refresh_token is empty - cannot be an empty string"),
                  ser |-> s3, cred |-> c1]
            ELSE LET s4 == SerPut(SerPut(s3, "RefreshToken", Unwrap(c1.refresh_token)),
                                  "GrantType", "refresh_token")
                 IN [res |-> as_credential_map(s4,
                                 <<"Scope", "AuthorizationCode", "RedirectUri", "CodeVerifier">>,
                                 <<"RefreshToken", "ClientId", "GrantType",
                                   "ClientAssertion", "ClientAssertionType">>),
                     ser |-> s4, cred |-> c1]
       ELSE IF IsSome(c1.authorization_code)
       THEN IF is_empty(trim(Unwrap(c1.authorization_code)))
            THEN [res |-> AF_msg_result(alias("AuthorizationCode"),
                              "authorization_code is empty - cannot be an empty string"),
                  ser |-> s3, cred |-> c1]
            ELSE LET s4 == SerPut(SerPut(s3, "AuthorizationCode", Unwrap(c1.authorization_code)),
                                  "GrantType", "authorization_code")
                 IN [res |-> as_credential_map(s4, <<"Scope", "CodeVerifier">>,
                                 <<"AuthorizationCode", "ClientId", "GrantType", "RedirectUri",
                                   "ClientAssertion", "ClientAssertionType">>),
                     ser |-> s4, cred |-> c1]
       ELSE [res |-> AF_msg_result(alias("AuthorizationCode") \o " or " \o alias("RefreshToken"),
                         "Either authorization code or refresh token is required"),
             ser |-> s3, cred |-> c1]

(* AuthorizationCodeCertificateCredential::form_urlencode *)
Certificate_form_urlencode(c, ser) ==
    IF is_empty(trim(c.client_id))
    THEN [res |-> AF_result(alias("ClientId")), ser |-> ser, cred |-> c]
    ELSE IF is_empty(trim(c.client_assertion))
    THEN [res |-> AF_result(alias("ClientAssertion")), ser |-> ser, cred |-> c]
    ELSE
    LET c1 == IF is_empty(trim(c.client_assertion_type))
              THEN [c EXCEPT !.client_assertion_type = CLIENT_ASSERTION_TYPE]
              ELSE c
        s1 == extend_scopes(
                  SerPut(SerPut(SerPut(ser, "ClientId", c1.client_id),
                                "ClientAssertion", c1.client_assertion),
                         "ClientAssertionType", c1.client_assertion_type),
                  c1.scope)
        s2 == IF IsSome(c1.redirect_uri)
              THEN SerPut(s1, "RedirectUri", Unwrap(c1.redirect_uri))
              ELSE s1
        s3 == IF IsSome(c1.code_verifier)
              THEN SerPut(s2, "CodeVerifier", Unwrap(c1.code_verifier))
              ELSE s2
    IN IF IsSome(c1.refresh_token)
       THEN IF is_empty(trim(Unwrap(c1.refresh_token)))
            THEN [res |-> AF_msg_result(alias("RefreshToken"),
                              "refresh_token is empty - cannot be an empty string"),
                  ser |-> s3, cred |-> c1]
            ELSE LET s4 == SerPut(SerPut(s3, "RefreshToken", Unwrap(c1.refresh_token)),
                                  "GrantType", "refresh_token")
                 IN [res |-> as_credential_map(s4, <<"Scope">>,
                                 <<"RefreshToken", "ClientId", "GrantType",
                                   "ClientAssertion", "ClientAssertionType">>),
                     ser |-> s4, cred |-> c1]
       ELSE IF IsSome(c1.authorization_code)
       THEN IF is_empty(trim(Unwrap(c1.authorization_code)))
            THEN [res |-> AF_msg_result(alias("AuthorizationCode"),
                              "authorization_code is empty - cannot be an empty string"),
                  ser |-> s3, cred |-> c1]
            ELSE LET s4 == SerPut(SerPut(s3, "AuthorizationCode", Unwrap(c1.authorization_code)),
                                  "GrantType", "authorization_code")
                 IN [res |-> as_credential_map(s4, <<"Scope", "CodeVerifier">>,
                                 <<"AuthorizationCode", "ClientId", "GrantType", "RedirectUri",
                                   "ClientAssertion", "ClientAssertionType">>),
                     ser |-> s4, cred |-> c1]
       ELSE [res |-> AF_msg_result(alias("AuthorizationCode") \o " or " \o alias("RefreshToken"),
                         "Either authorization code or refresh token is required"),
             ser |-> s3, cred |-> c1]

form_urlencode(c, ser) ==
    IF c.kind = "ClientSecret"
    THEN ClientSecret_form_urlencode(c, ser)
    ELSE Certificate_form_urlencode(c, ser)

(* TokenCredentialExecutor::basic_auth: None unless the credential overrides it *)
basic_auth(c) ==
    IF c.kind = "ClientSecret" THEN ClientSecret_basic_auth(c) ELSE None

extra_header_parameters(c) == c.extra_header_parameters

(* Mutant: the version segment is left out of the discovery path *)
openid_configuration_url_unversioned(c) ==
    Url_parse(cloud_as_ref(c.azure_cloud_instance) \o "/" \o authority_as_ref(c.authority)
              \o "/.well-known/openid-configuration")

(* TokenCredentialExecutor::openid_configuration_url *)
openid_configuration_url(c) ==
    Url_parse(cloud_as_ref(c.azure_cloud_instance) \o "/" \o authority_as_ref(c.authority)
              \o "/v2.0/.well-known/openid-configuration")

-----------------------------------------------------------------------------
(* TokenCredentialExecutor *)

AuthorizationRequest(u, form, basic, headers) ==
    [uri |-> u, form_urlencoded |-> form, basic_auth |-> basic, headers |-> headers]

(* Mutant: the request is assembled although form_urlencode failed *)
authorization_request_parts_unchecked(c, ser) ==
    LET u == uri(c, ser) IN
    IF ~u.res.ok THEN u
    ELSE LET f == form_urlencode(u.cred, u.ser) IN
         [res |-> Ok(AuthorizationRequest(u.res.val,
                                          IF f.res.ok THEN f.res.val ELSE <<>>,
                                          basic_auth(f.cred),
                                          extra_header_parameters(f.cred))),
          ser |-> f.ser,
          cred |-> f.cred]

authorization_request_parts(c, ser) ==
    LET u == uri(c, ser) IN
    IF ~u.res.ok THEN u
    ELSE LET f == form_urlencode(u.cred, u.ser) IN
         IF ~f.res.ok THEN f
         ELSE [res |-> Ok(AuthorizationRequest(u.res.val, f.res.val, basic_auth(f.cred),
                                               extra_header_parameters(f.cred))),
               ser |-> f.ser,
               cred |-> f.cred]

(* The POST as it leaves the client: what the request builder was given *)
HttpPost(u, basic, headers, form) ==
    [method |-> "POST", uri |-> u, basic_auth |-> basic, headers |-> headers,
     form |-> form]

NoHeaders == {}

(* the request built by execute: lines 124-137 *)
execute_request(auth_request) ==
    IF IsSome(auth_request.basic_auth)
    THEN HttpPost(auth_request.uri, auth_request.basic_auth, auth_request.headers,
                  auth_request.form_urlencoded)
    ELSE HttpPost(auth_request.uri, None, NoHeaders, auth_request.form_urlencoded)

(* the request built by execute_async: lines 178-197 *)
execute_async_request(auth_request) ==
    IF IsSome(auth_request.basic_auth)
    THEN HttpPost(auth_request.uri, auth_request.basic_auth, auth_request.headers,
                  auth_request.form_urlencoded)
    ELSE HttpPost(auth_request.uri, None, auth_request.headers,
                  auth_request.form_urlencoded)

request_of(m, auth_request) ==
    IF m = "blocking" THEN execute_request(auth_request)
    ELSE execute_async_request(auth_request)

-----------------------------------------------------------------------------
(* Token and the in-memory token store *)

Token(access_token, expires_in, timestamp) ==
    [access_token |-> access_token, token_type |-> "Bearer",
     expires_in |-> expires_in, timestamp |-> timestamp]

(* Token::is_expired_sub: the expiry moved earlier by d lies before t *)
is_expired_sub(token, d, t) == (token.timestamp + token.expires_in) - d < t

NoCache == [id \in {} |-> None]

cache_get(store, id) == IF id \in DOMAIN store THEN Some(store[id]) ELSE None

cache_store(store, id, token) ==
    [x \in (DOMAIN store) \cup {id} |-> IF x = id THEN token ELSE store[x]]

(* let cache_id = self.app_config.cache_id.to_string(): the stored identity *)
cache_id(c) == c.cache_id

-----------------------------------------------------------------------------
(* The token endpoint's replies *)

Statuses == {200, 400}

TokenBody(access_token, expires_in) ==
    [shape |-> "token", access_token |-> access_token, expires_in |-> expires_in]

ErrorBody == [shape |-> "error", access_token |-> 0, expires_in |-> 0]

SendError == [kind |-> "send_error", status |-> 0, body |-> ErrorBody]

HttpResponse(status, body) == [kind |-> "response", status |-> status, body |-> body]

Replies(id) ==
    {SendError}
    \cup {HttpResponse(200, TokenBody(id, e)) : e \in ExpiresIn}
    \cup {HttpResponse(st, ErrorBody) : st \in Statuses}

(* Response::json::<Token>: the body parsed into a Token stamped with the time *)
json_token(response, t) ==
    IF response.body.shape = "token"
    THEN Ok(Token(response.body.access_token, response.body.expires_in, t))
    ELSE Err([kind |-> "Deserialize", name |-> "token", message |-> None])

TransportError == Err([kind |-> "Transport", name |-> "send", message |-> None])

-----------------------------------------------------------------------------
(* State *)

NoCall == [op |-> "none", id |-> 0, request |-> None]

NoReturn ==
    [mode |-> "none", op |-> "none", outcome |-> "none",
     token |-> None, response |-> None, err |-> None, value |-> None,
     given |-> None]

Returned(m, op, outcome, token, response, err) ==
    [mode |-> m, op |-> op, outcome |-> outcome,
     token |-> token, response |-> response, err |-> err, value |-> None,
     given |-> None]

(* What uri and form_urlencode hand back: Ok(value) or Err(err) *)
ReturnedResult(op, res) ==
    [mode |-> "none", op |-> op, outcome |-> IF res.ok THEN "ok" ELSE "error",
     token |-> None, response |-> None,
     err |-> IF res.ok THEN None ELSE Some(res.err),
     value |-> IF res.ok THEN Some(res.val) ELSE None,
     given |-> None]

(* The token endpoint's log.  A POST carries the client id in its basic     *)
(* authorization, the tenant in its URI and the scopes in its form; the     *)
(* endpoint issues the access token of POST number n for these.  The form's *)
(* scope value is the serializer's scopes joined by blanks; the endpoint    *)
(* reads it back as the set of these scopes.                                *)
NothingSent == [n \in {} |-> None]

received(log, n, auth_request, ser) ==
    (n :> [uri |-> auth_request.uri, basic_auth |-> auth_request.basic_auth,
           scope |-> IF "scope" \in DOMAIN auth_request.form_urlencoded
                     THEN SeqToSet(ser.scopes) ELSE {}])
    @@ log

(* No window has been opened *)
NoWebview == [state |-> "none"]

NoExtraHeaders == {}
ExtraHeaders == {<<"x-ms-client-request-id", "1">>}

(* The credentials the executor and the cache are exercised on *)
ExecutorCredentials ==
    {ClientSecretCredential(id, secret, <<DefaultScope>>, a, h) :
        id \in Uuids, secret \in {<<>>, <<" ">>, <<"x">>},
        a \in {Common, TenantId("")}, h \in {NoExtraHeaders, ExtraHeaders}}
    \cup
    {CertificateCredential(id, <<"x">>, <<>>, code, refresh, redirect, None, <<>>,
                           Common, h) :
        id \in {<<>>, <<"x">>}, code \in {None, Some(<<"x">>)},
        refresh \in {None, Some(<<"x">>)},
        redirect \in {None, Some("https://app/callback")},
        h \in {NoExtraHeaders, ExtraHeaders}}

Init ==
    /\ cred \in ExecutorCredentials
    /\ serializer = NewSerializer
    /\ cache = NoCache
    /\ now = 0
    /\ posts = 0
    /\ pc = [m \in Modes |-> "idle"]
    /\ call = [m \in Modes |-> NoCall]
    /\ ret = NoReturn
    /\ sent = NothingSent
    /\ webview = NoWebview

-----------------------------------------------------------------------------
(* Mutant: the cached token is never reused *)
silent_lookup_never_hit(store, c, t) == [hit |-> FALSE, token |-> None]

(* Mutant: the margin is taken as 5 seconds instead of 5 minutes *)
silent_lookup_short_margin(store, c, t) ==
    LET o == cache_get(store, cache_id(c)) IN
    IF IsSome(o)
    THEN IF is_expired_sub(Unwrap(o), MarginSeconds \div 60, t)
         THEN [hit |-> FALSE, token |-> None]
         ELSE [hit |-> TRUE, token |-> o]
    ELSE [hit |-> FALSE, token |-> None]

(* get_token_silent / get_token_silent_async: the lookup, lines 102-104     *)
silent_lookup(store, c, t) ==
    LET o == cache_get(store, cache_id(c)) IN
    IF IsSome(o)
    THEN IF is_expired_sub(Unwrap(o), MarginSeconds, t)
         THEN [hit |-> FALSE, token |-> None]
         ELSE [hit |-> TRUE, token |-> o]
    ELSE [hit |-> FALSE, token |-> None]

(* Mutant: a token already stored under the identity is kept *)
silent_store_first_writer_wins(store, c, token) ==
    IF cache_id(c) \in DOMAIN store THEN store ELSE cache_store(store, cache_id(c), token)

(* Mutant: the new token is returned but not stored *)
silent_store_skipped(store, c, token) == store

(* get_token_silent: self.token_cache.store(cache_id, msal_token.clone()) *)
silent_store(store, c, token) == cache_store(store, cache_id(c), token)

(* Every operation takes &mut self: one call at a time on a credential *)
Exclusive == \A k \in Modes : pc[k] = "idle"

(* execute / execute_async up to and including send(): the request parts   *)
(* are assembled and, when they are valid, the POST leaves.                 *)
Send(m, op) ==
    LET parts == authorization_request_parts(cred, serializer) IN
    /\ cred' = parts.cred
    /\ serializer' = parts.ser
    /\ IF parts.res.ok
       THEN /\ posts < MaxPosts
            /\ posts' = posts + 1
            /\ sent' = received(sent, posts + 1, parts.res.val, parts.ser)
            /\ pc' = [pc EXCEPT ![m] = "sent"]
            /\ call' = [call EXCEPT ![m] =
                           [op |-> op, id |-> posts + 1,
                            request |-> Some(request_of(m, parts.res.val))]]
            /\ UNCHANGED <<cache, now, ret, webview>>
       ELSE /\ ret' = Returned(m, op, "error", None, None, Some(parts.res.err))
            /\ UNCHANGED <<cache, now, posts, sent, webview, pc, call>>

(* TokenCredentialExecutor::execute (m = "blocking") / execute_async *)
Execute(m) ==
    /\ Exclusive
    /\ Send(m, "execute")

(* get_token_silent / get_token_silent_async up to the return of the cached *)
(* token or to send()                                                       *)
get_token_silent(m) ==
    LET l == silent_lookup(cache, cred, now) IN
    IF l.hit
    THEN /\ ret' = Returned(m, "get_token_silent", "hit", l.token, None, None)
         /\ UNCHANGED <<cred, serializer, cache, now, posts, sent, webview, pc, call>>
    ELSE Send(m, "get_token_silent")

(* TokenCacheStore::get_token_silent (m = "blocking") / get_token_silent_async *)
GetTokenSilent(m) ==
    /\ Exclusive
    /\ cred.kind = "ClientSecret"
    /\ get_token_silent(m)

(* Mutant: a refresh that fails drops what the store holds *)
Complete_evicting(m, reply) ==
    /\ pc' = [pc EXCEPT ![m] = "idle"]
    /\ call' = [call EXCEPT ![m] = NoCall]
    /\ UNCHANGED <<cred, serializer, now, posts, sent, webview>>
    /\ IF reply.kind = "send_error"
       THEN /\ ret' = Returned(m, call[m].op, "error", None, None, Some(TransportError.err))
            /\ cache' = IF call[m].op = "execute" THEN cache ELSE NoCache
       ELSE IF call[m].op = "execute"
       THEN /\ ret' = Returned(m, "execute", "response", None, Some(reply), None)
            /\ cache' = cache
       ELSE LET parsed == json_token(reply, now) IN
            IF parsed.ok
            THEN /\ cache' = silent_store(cache, cred, parsed.val)
                 /\ ret' = Returned(m, "get_token_silent", "token",
                                    Some(parsed.val), None, None)
            ELSE /\ ret' = Returned(m, "get_token_silent", "error",
                                    None, None, Some(parsed.err))
                 /\ cache' = NoCache

(* Mutant: a refresh that fails forgets the entry it was to replace *)
Complete_forgetting(m, reply) ==
    LET forgotten == [id \in (DOMAIN cache) \ {cache_id(cred)} |-> cache[id]] IN
    /\ pc' = [pc EXCEPT ![m] = "idle"]
    /\ call' = [call EXCEPT ![m] = NoCall]
    /\ UNCHANGED <<cred, serializer, now, posts, sent, webview>>
    /\ IF reply.kind = "send_error"
       THEN /\ ret' = Returned(m, call[m].op, "error", None, None, Some(TransportError.err))
            /\ cache' = IF call[m].op = "execute" THEN cache ELSE forgotten
       ELSE IF call[m].op = "execute"
       THEN /\ ret' = Returned(m, "execute", "response", None, Some(reply), None)
            /\ cache' = cache
       ELSE LET parsed == json_token(reply, now) IN
            IF parsed.ok
            THEN /\ cache' = silent_store(cache, cred, parsed.val)
                 /\ ret' = Returned(m, "get_token_silent", "token",
                                    Some(parsed.val), None, None)
            ELSE /\ ret' = Returned(m, "get_token_silent", "error",
                                    None, None, Some(parsed.err))
                 /\ cache' = forgotten

(* send() returns: execute hands the response (or the error) to its caller; *)
(* get_token_silent parses it, stores the token and returns it.             *)
Complete(m, reply) ==
    /\ pc' = [pc EXCEPT ![m] = "idle"]
    /\ call' = [call EXCEPT ![m] = NoCall]
    /\ UNCHANGED <<cred, serializer, now, posts, sent, webview>>
    /\ IF reply.kind = "send_error"
       THEN /\ ret' = Returned(m, call[m].op, "error", None, None, Some(TransportError.err))
            /\ cache' = cache
       ELSE IF call[m].op = "execute"
       THEN /\ ret' = Returned(m, "execute", "response", None, Some(reply), None)
            /\ cache' = cache
       ELSE LET parsed == json_token(reply, now) IN
            IF parsed.ok
            THEN /\ cache' = silent_store(cache, cred, parsed.val)
                 /\ ret' = Returned(m, "get_token_silent", "token",
                                    Some(parsed.val), None, None)
            ELSE /\ ret' = Returned(m, "get_token_silent", "error",
                                    None, None, Some(parsed.err))
                 /\ cache' = cache

(* Mutant: a request whose send failed is sent once more *)
Respond_retry(m) ==
    /\ pc[m] = "sent"
    /\ \E reply \in Replies(call[m].id) :
          IF reply.kind = "send_error" /\ posts < MaxPosts
          THEN /\ posts' = posts + 1
               /\ call' = [call EXCEPT ![m].id = posts + 1]
               /\ sent' = (posts + 1 :> sent[call[m].id]) @@ sent
               /\ UNCHANGED <<cred, serializer, cache, now, pc, ret, webview>>
          ELSE Complete(m, reply)

Respond(m) ==
    /\ pc[m] = "sent"
    /\ \E reply \in Replies(call[m].id) : Complete(m, reply)

(* Time passes *)
Tick(d) ==
    /\ now + d <= MaxTime
    /\ now' = now + d
    /\ UNCHANGED <<cred, serializer, cache, posts, sent, webview, pc, call, ret>>

Next ==
    \/ \E m \in Modes : GetTokenSilent(m)
    \/ \E m \in Modes : Execute(m)
    \/ \E m \in Modes : Respond(m)
    \/ \E d \in Steps : Tick(d)

Spec == Init /\ [][Next]_vars

-----------------------------------------------------------------------------
(* Two callers, each holding its own clone of one credential.  The clones   *)
(* are equal field by field and share the token store; each caller has its  *)
(* own call in flight.  A clone's serializer is filled with the same values *)
(* by every call, so one copy of it stands for both.                        *)

GetTokenSilentOnClone(m) ==
    /\ pc[m] = "idle"
    /\ cred.kind = "ClientSecret"
    /\ get_token_silent(m)

InitRace == Init /\ cred.kind = "ClientSecret"

NextRace ==
    \/ \E m \in Modes : GetTokenSilentOnClone(m)
    \/ \E m \in Modes : Respond(m)
    \/ \E d \in Steps : Tick(d)

RaceSpec == InitRace /\ [][NextRace]_vars

-----------------------------------------------------------------------------
(* OpenID configuration discovery: get_openid_config (m = "blocking") and   *)
(* get_openid_config_async.                                                 *)

HttpGet(u, headers) ==
    [method |-> "GET", uri |-> u, basic_auth |-> None, headers |-> headers, form |-> <<>>]

AcceptJson == {<<"accept", "application/json">>}

ConfigBody == [shape |-> "openid-configuration", access_token |-> 0, expires_in |-> 0]

OpenidReplies ==
    {SendError, HttpResponse(200, ConfigBody)} \cup {HttpResponse(st, ErrorBody) : st \in Statuses}

(* up to and including send(): the discovery URL is built and the GET leaves *)
GetOpenidConfig(m) ==
    /\ Exclusive
    /\ LET u == openid_configuration_url(cred) IN
       IF u.ok
       THEN /\ pc' = [pc EXCEPT ![m] = "sent"]
            /\ call' = [call EXCEPT ![m] =
                           [op |-> "get_openid_config", id |-> 0,
                            request |-> Some(HttpGet(u.val, AcceptJson))]]
            /\ UNCHANGED <<cred, serializer, cache, now, posts, sent, webview, ret>>
       ELSE /\ ret' = Returned(m, "get_openid_config", "error", None, None, Some(u.err))
            /\ UNCHANGED <<cred, serializer, cache, now, posts, sent, webview, pc, call>>

(* send() returns.  The blocking variant unwraps the result with            *)
(* .expect("Error on header"): a failed send ends the call in a panic; the  *)
(* non-blocking variant hands the error on with ?.                          *)
RespondOpenidConfig(m) ==
    /\ pc[m] = "sent"
    /\ call[m].op = "get_openid_config"
    /\ \E reply \in OpenidReplies :
          /\ pc' = [pc EXCEPT ![m] = "idle"]
          /\ call' = [call EXCEPT ![m] = NoCall]
          /\ UNCHANGED <<cred, serializer, cache, now, posts, sent, webview>>
          /\ IF reply.kind = "send_error"
             THEN IF m = "blocking"
                  THEN ret' = Returned(m, "get_openid_config", "panic", None, None, None)
                  ELSE ret' = Returned(m, "get_openid_config", "error", None, None,
                                       Some(TransportError.err))
             ELSE ret' = Returned(m, "get_openid_config", "response", None, Some(reply), None)

NextOpenid ==
    \/ \E m \in Modes : GetOpenidConfig(m)
    \/ \E m \in Modes : RespondOpenidConfig(m)

OpenidSpec == Init /\ [][NextOpenid]_vars

-----------------------------------------------------------------------------
(* The serializer on its own: uri and form_urlencode called on credentials  *)
(* whose fields range over blank, padded and plain strings.                 *)

Scopes == {<<>>, <<DefaultScope>>, <<"User.Read", "Mail.Read">>}

OptStrs == {None} \cup {Some(x) : x \in Strs}

SerializerCredentials ==
    {ClientSecretCredential(id, secret, scope, a, NoExtraHeaders) :
        id \in Uuids, secret \in Strs, scope \in Scopes,
        a \in {Common, TenantId("tenant-id"), TenantId("")}}
    \cup
    {CertificateCredential(id, assertion, <<>>, code, refresh, None, None, <<>>,
                           Common, NoExtraHeaders) :
        id \in {<<>>, <<" ">>, <<"x">>}, assertion \in Strs,
        code \in OptStrs, refresh \in OptStrs}
    \cup
    {CertificateCredential(<<"x">>, <<"x">>, type, code, refresh, redirect, verifier,
                           scope, Common, NoExtraHeaders) :
        type \in {<<>>, CLIENT_ASSERTION_TYPE},
        code \in {None, Some(<<"x">>)}, refresh \in {None, Some(<<"x">>)},
        redirect \in {None, Some("https://app/callback")},
        verifier \in {None, Some(<<"x">>)}, scope \in Scopes}
    \cup
    {[ClientSecretCredential(1, <<"x">>, <<DefaultScope>>, a, NoExtraHeaders)
         EXCEPT !.azure_cloud_instance = cloud] :
        a \in {Common, TenantId("tenant-id"), TenantId("")},
        cloud \in AzureCloudInstances}

InitSerializer ==
    /\ cred \in SerializerCredentials
    /\ serializer = NewSerializer
    /\ cache = NoCache
    /\ now = 0
    /\ posts = 0
    /\ pc = [m \in Modes |-> "idle"]
    /\ call = [m \in Modes |-> NoCall]
    /\ ret = NoReturn
    /\ sent = NothingSent
    /\ webview = NoWebview

(* a caller calls uri() *)
CallUri ==
    /\ Exclusive
    /\ LET u == uri(cred, serializer) IN
       /\ cred' = u.cred
       /\ serializer' = u.ser
       /\ ret' = ReturnedResult("uri", u.res)
    /\ UNCHANGED <<cache, now, posts, sent, webview, pc, call>>

(* a caller calls form_urlencode() *)
CallFormUrlencode ==
    /\ Exclusive
    /\ LET f == form_urlencode(cred, serializer) IN
       /\ cred' = f.cred
       /\ serializer' = f.ser
       /\ ret' = ReturnedResult("form_urlencode", f.res)
    /\ UNCHANGED <<cache, now, posts, sent, webview, pc, call>>

(* a caller calls openid_configuration_url() *)
CallOpenidConfigurationUrl ==
    /\ Exclusive
    /\ ret' = ReturnedResult("openid_configuration_url", openid_configuration_url(cred))
    /\ UNCHANGED <<cred, serializer, cache, now, posts, sent, webview, pc, call>>

NextSerializer == CallUri \/ CallFormUrlencode \/ CallOpenidConfigurationUrl

SerializerSpec == InitSerializer /\ [][NextSerializer]_vars

-----------------------------------------------------------------------------
(* AuthorizationCodeCertificateCredential::new and its builder: the calls   *)
(* that set the fields of the credential before it is used.                 *)

(* IntoUrl::into_url: the text parsed into a Url and written back *)
into_url(s) == Url_parse(s)

UrlTexts == {"https://app/callback", "https://app", "app"}

result_ok(r) == IF r.ok THEN Some(r.val) ELSE None

Certificate_new(client_id, authorization_code, client_assertion, redirect_uri) ==
    CertificateCredential(client_id, client_assertion, CLIENT_ASSERTION_TYPE,
                          Some(authorization_code), None,
                          IF IsSome(redirect_uri)
                          THEN result_ok(into_url(Unwrap(redirect_uri)))
                          ELSE None,
                          None, <<>>, Common, NoExtraHeaders)

(* AuthorizationCodeCertificateCredentialBuilder::new *)
Builder_new ==
    CertificateCredential(<<>>, CLIENT_ASSERTION_TYPE, <<>>, None, None, None, None,
                          <<>>, Common, NoExtraHeaders)

(* From<AuthCodeAuthorizationUrlParameters>: a new builder that is given    *)
(* the redirect URI, the scopes, the client id and the authority            *)
Builder_from(client_id, redirect_uri, scope, authority) ==
    [Builder_new EXCEPT !.redirect_uri = IF into_url(redirect_uri).ok
                                         THEN Some(into_url(redirect_uri).val)
                                         ELSE None,
                        !.scope = scope,
                        !.client_id = client_id,
                        !.authority = authority]

BuilderReturned(op, ok) ==
    [NoReturn EXCEPT !.op = op, !.outcome = IF ok THEN "ok" ELSE "error"]

(* a call that was handed a redirect URI, with the text it was handed *)
BuilderReturnedGiven(op, ok, redirect_uri) ==
    [BuilderReturned(op, ok) EXCEPT !.given = redirect_uri]

BuilderCall(op, c, ok) ==
    /\ cred' = c
    /\ ret' = BuilderReturned(op, ok)
    /\ UNCHANGED <<serializer, cache, now, posts, sent, webview, pc, call>>

with_refresh_token(refresh_token) ==
    BuilderCall("with_refresh_token",
                [cred EXCEPT !.authorization_code = None,
                             !.refresh_token = Some(refresh_token)], TRUE)

with_authorization_code(authorization_code) ==
    BuilderCall("with_authorization_code",
                [cred EXCEPT !.authorization_code = Some(authorization_code)], TRUE)

with_redirect_uri(redirect_uri) ==
    LET u == into_url(redirect_uri) IN
    /\ cred' = IF u.ok THEN [cred EXCEPT !.redirect_uri = Some(u.val)] ELSE cred
    /\ ret' = BuilderReturnedGiven("with_redirect_uri", u.ok, Some(redirect_uri))
    /\ UNCHANGED <<serializer, cache, now, posts, sent, webview, pc, call>>

with_code_verifier(code_verifier) ==
    BuilderCall("with_code_verifier",
                [cred EXCEPT !.code_verifier = Some(code_verifier)], TRUE)

with_client_assertion(client_assertion) ==
    BuilderCall("with_client_assertion",
                [cred EXCEPT !.client_assertion = client_assertion], TRUE)

with_client_assertion_type(client_assertion_type) ==
    BuilderCall("with_client_assertion_type",
                [cred EXCEPT !.client_assertion_type = client_assertion_type], TRUE)

(* the texts handed to the builder: empty, blank, plain *)
BuilderStrs == {<<>>, <<" ">>, <<"x">>}

InitBuilder ==
    /\ \/ cred = Builder_new /\ ret = BuilderReturned("builder", TRUE)
       \/ \E code \in BuilderStrs, redirect \in {None} \cup {Some(u) : u \in UrlTexts} :
             /\ cred = Certificate_new(<<"x">>, code, <<"x">>, redirect)
             /\ ret = BuilderReturnedGiven("new", TRUE, redirect)
       \/ \E u \in UrlTexts, scope \in {<<>>, <<"User.Read", "Mail.Read">>} :
             /\ cred = Builder_from(<<"x">>, u, scope, Common)
             /\ ret = BuilderReturnedGiven("from", TRUE, Some(u))
    /\ serializer = NewSerializer
    /\ cache = NoCache
    /\ now = 0
    /\ posts = 0
    /\ pc = [m \in Modes |-> "idle"]
    /\ call = [m \in Modes |-> NoCall]
    /\ sent = NothingSent
    /\ webview = NoWebview

NextBuilder ==
    \/ \E s \in BuilderStrs : with_authorization_code(s)
    \/ \E s \in BuilderStrs : with_refresh_token(s)
    \/ \E u \in UrlTexts : with_redirect_uri(u)
    \/ with_code_verifier(<<"x">>)
    \/ \E s \in {<<>>, <<"x">>} : with_client_assertion(s)
    \/ \E s \in {<<>>, CLIENT_ASSERTION_TYPE} : with_client_assertion_type(s)
    \/ CallFormUrlencode

BuilderSpec == InitBuilder /\ [][NextBuilder]_vars

-----------------------------------------------------------------------------
(* ClientSecretCredentialBuilder.  cred is the builder's credential.  A     *)
(* caller calls a credential that credential() handed out: a clone, equal   *)
(* field by field, that shares the token store and carries the builder's    *)
(* serializer, which no call has filled.  After a setter the caller takes   *)
(* a new clone before the next call.                                        *)

(* ClientSecretCredential::new *)
ClientSecret_new(client_id, client_secret) ==
    ClientSecretCredential(client_id, client_secret, <<DefaultScope>>, Common,
                           NoExtraHeaders)

(* ClientSecretCredential::new_with_tenant *)
ClientSecret_new_with_tenant(tenant_id, client_id, client_secret) ==
    ClientSecretCredential(client_id, client_secret, <<DefaultScope>>,
                           TenantId(tenant_id), NoExtraHeaders)

(* ClientSecretCredentialBuilder::with_client_secret *)
with_client_secret(client_secret) ==
    /\ Exclusive
    /\ BuilderCall("with_client_secret", [cred EXCEPT !.client_secret = client_secret],
                   TRUE)

(* credential_builder!: with_scope replaces the credential's scope list *)
with_scope(scope) ==
    /\ Exclusive
    /\ BuilderCall("with_scope", [cred EXCEPT !.scope = scope], TRUE)

(* ClientSecretCredentialBuilder::credential: self.credential.clone() *)
credential ==
    /\ Exclusive
    /\ serializer' = NewSerializer
    /\ ret' = BuilderReturned("credential", TRUE)
    /\ UNCHANGED <<cred, cache, now, posts, sent, webview, pc, call>>

(* the caller's clone is the builder's credential as it is now *)
HoldsClone == ret.op \notin {"builder", "with_client_secret", "with_scope"}

GetTokenSilentOnBuilt(m) ==
    /\ Exclusive
    /\ HoldsClone
    /\ get_token_silent(m)

BuiltScopes == {<<DefaultScope>>, <<"User.Read", "Mail.Read">>, <<"Mail.Read", "User.Read">>}

InitSecretBuilder ==
    /\ cred \in {ClientSecret_new(1, <<"x">>),
                 ClientSecret_new_with_tenant("tenant-id", 1, <<"x">>)}
    /\ serializer = NewSerializer
    /\ cache = NoCache
    /\ now = 0
    /\ posts = 0
    /\ pc = [m \in Modes |-> "idle"]
    /\ call = [m \in Modes |-> NoCall]
    /\ ret = BuilderReturned("builder", TRUE)
    /\ sent = NothingSent
    /\ webview = NoWebview

NextSecretBuilder ==
    \/ \E s \in {<<" ">>, <<"x">>} : with_client_secret(s)
    \/ \E scope \in BuiltScopes : with_scope(scope)
    \/ credential
    \/ \E m \in Modes : GetTokenSilentOnBuilt(m)
    \/ \E m \in Modes : Respond(m)
    \/ \E d \in Steps : Tick(d)

SecretBuilderSpec == InitSecretBuilder /\ [][NextSecretBuilder]_vars

-----------------------------------------------------------------------------
(* Interactive authentication: with_interactive_authentication opens a      *)
(* window at the authorization URL and waits for the redirect.  webview is  *)
(* the session: its configuration, its state and its outcome.               *)

MaxEvents == 3

(* The WebViewExecutionError variants that customize_webview matches *)
WebViewExecutionErrors ==
    {"InvalidRedirectUri", "WindowClosedRequested", "WindowClosedOnInvalidNavigation",
     "WindowClosedOnTimeoutReached", "InvalidStartUri",
     "RedirectUriMissingQueryOrFragment", "SerdeError", "AuthorizationError",
     "RecvError", "AuthExecutionError"}

TerminalStates == {"Succeeded", "Failed"}

(* A URL text taken apart: the part before the query, the host, the port,   *)
(* and the query and the fragment as the key=value pairs they hold.         *)
UrlParts(base, host, port, query, fragment) ==
    [base |-> base, host |-> host, port |-> port, query |-> query, fragment |-> fragment]

Url_parts(text) ==
    CASE text = "http://localhost" ->
           UrlParts("http://localhost/", "localhost", None, None, None)
      [] text = "http://localhost:8000" ->
           UrlParts("http://localhost:8000/", "localhost", Some(8000), None, None)
      [] text = "http://localhost:8000/?code=XYZ789&state=xyz" ->
           UrlParts("http://localhost:8000/", "localhost", Some(8000),
                    Some(<<<<"code", "XYZ789">>, <<"state", "xyz">>>>), None)
      [] text = "https://app/callback" ->
           UrlParts("https://app/callback", "app", None, None, None)
      [] text = "https://app/callback?code=ABC123&state=xyz" ->
           UrlParts("https://app/callback", "app", None,
                    Some(<<<<"code", "ABC123">>, <<"state", "xyz">>>>), None)
      [] text = "https://app/callback#code=DEF456&state=xyz" ->
           UrlParts("https://app/callback", "app", None, None,
                    Some(<<<<"code", "DEF456">>, <<"state", "xyz">>>>))
      [] text = "https://app/callback?error=access_denied&error_description=denied" ->
           UrlParts("https://app/callback", "app", None,
                    Some(<<<<"error", "access_denied">>,
                           <<"error_description", "denied">>>>), None)
      [] text = "https://app/callback?session=1" ->
           UrlParts("https://app/callback", "app", None,
                    Some(<<<<"session", "1">>>>), None)
      [] text = "https://login.microsoftonline.com/common/oauth2/v2.0/authorize" ->
           UrlParts("https://login.microsoftonline.com/common/oauth2/v2.0/authorize",
                    "login.microsoftonline.com", None, None, None)
      [] text = "https://elsewhere.example/" ->
           UrlParts("https://elsewhere.example/", "elsewhere.example", None, None, None)
      [] OTHER -> UrlParts(text, "", None, None, None)

is_loopback(host) == host \in {"localhost", "127.0.0.1"}

(* Mutant: a loopback redirect URI is accepted without a port *)
redirect_uri_invalid_never(redirect_uri) == FALSE

(* the fail-fast check: a loopback host needs a port *)
redirect_uri_invalid(redirect_uri) ==
    LET u == Url_parts(redirect_uri) IN is_loopback(u.host) /\ u.port = None

(* the value of a key among key=value pairs *)
pair_value(pairs, key) ==
    IF \E i \in 1..Len(pairs) : pairs[i][1] = key
    THEN Some(pairs[CHOOSE i \in 1..Len(pairs) :
                       /\ pairs[i][1] = key
                       /\ \A j \in 1..Len(pairs) : pairs[j][1] = key => i <= j][2])
    ELSE None

(* Mutant: the state parameter is taken for the code *)
parse_response_state_as_code(pairs) ==
    IF IsSome(pair_value(pairs, "code"))
    THEN Ok([code |-> pair_value(pairs, "state"), state |-> pair_value(pairs, "state"),
             error |-> None, error_description |-> None])
    ELSE IF IsSome(pair_value(pairs, "error"))
    THEN Ok([code |-> None, state |-> None, error |-> pair_value(pairs, "error"),
             error_description |-> pair_value(pairs, "error_description")])
    ELSE Err("SerdeError")

(* the query or fragment parsed into {code, state} or {error, error_description} *)
parse_response(pairs) ==
    IF IsSome(pair_value(pairs, "code"))
    THEN Ok([code |-> pair_value(pairs, "code"), state |-> pair_value(pairs, "state"),
             error |-> None, error_description |-> None])
    ELSE IF IsSome(pair_value(pairs, "error"))
    THEN Ok([code |-> None, state |-> None, error |-> pair_value(pairs, "error"),
             error_description |-> pair_value(pairs, "error_description")])
    ELSE Err("SerdeError")

(* Mutant: a redirect without query and fragment is taken as an empty response *)
redirect_outcome_lenient(url) ==
    LET u == Url_parts(url) IN
    IF IsSome(u.query) THEN parse_response(Unwrap(u.query))
    ELSE IF IsSome(u.fragment) THEN parse_response(Unwrap(u.fragment))
    ELSE Ok([code |-> None, state |-> None, error |-> None, error_description |-> None])

(* what the redirect that arrived gives: the response, or the failure kind *)
redirect_outcome(url) ==
    LET u == Url_parts(url) IN
    IF IsSome(u.query) THEN parse_response(Unwrap(u.query))
    ELSE IF IsSome(u.fragment) THEN parse_response(Unwrap(u.fragment))
    ELSE Err("RedirectUriMissingQueryOrFragment")

AuthorizationUrl == "https://login.microsoftonline.com/common/oauth2/v2.0/authorize"

(* AuthorizationCodeCredential: what the flow was started with, and the     *)
(* authorization code once the flow has handed it over                      *)
AuthorizationCodeCredential(client_id, redirect_uri, authorization_code) ==
    [kind |-> "AuthorizationCode", client_id |-> client_id,
     redirect_uri |-> redirect_uri, authorization_code |-> authorization_code]

WebViewSession(redirect_uri, enforce, timeout, start_uri) ==
    [state |-> "Idle", kind |-> "none", response |-> None,
     redirect_uri |-> redirect_uri, enforce |-> enforce, timeout |-> timeout,
     start_uri |-> start_uri, deadline |-> None, navigations |-> 0, events |-> 0,
     last |-> "none"]

(* the outcome as with_interactive_authentication returns it to its caller *)
WebViewReturned(result) ==
    [NoReturn EXCEPT !.op = "with_interactive_authentication",
                     !.outcome = IF result.ok THEN "ok" ELSE "error",
                     !.err = IF result.ok THEN None ELSE Some(result.err),
                     !.value = IF result.ok THEN Some(result.val) ELSE None]

(* Mutant: the flow ends without telling its caller *)
Finish_silent(w, result) ==
    /\ webview' = [w EXCEPT !.state = IF result.ok THEN "Succeeded" ELSE "Failed",
                            !.kind = IF result.ok THEN "none" ELSE result.err,
                            !.response = IF result.ok THEN Some(result.val) ELSE None]
    /\ ret' = ret
    /\ cred' = IF result.ok
               THEN [cred EXCEPT !.authorization_code = result.val.code]
               ELSE cred

(* The flow ends: Succeeded with the response, whose code goes to the       *)
(* credential, or Failed with the kind; either is returned to the caller.   *)
Finish(w, result) ==
    /\ webview' = [w EXCEPT !.state = IF result.ok THEN "Succeeded" ELSE "Failed",
                            !.kind = IF result.ok THEN "none" ELSE result.err,
                            !.response = IF result.ok THEN Some(result.val) ELSE None]
    /\ ret' = WebViewReturned(result)
    /\ cred' = IF result.ok
               THEN [cred EXCEPT !.authorization_code = result.val.code]
               ELSE cred

(* with_interactive_authentication up to the opening of the window: the     *)
(* redirect URI is checked first, then the authorization URL is built.      *)
StartInteractive ==
    /\ webview.state = "Idle"
    /\ UNCHANGED <<serializer, cache, now, posts, sent, pc, call>>
    /\ IF redirect_uri_invalid(webview.redirect_uri)
       THEN Finish(webview, Err("InvalidRedirectUri"))
       ELSE IF is_empty(trim(cred.client_id))
       THEN Finish(webview, Err("AuthorizationError"))
       ELSE /\ webview' = [webview EXCEPT !.state = "NavigatingToAuthUrl"]
            /\ UNCHANGED <<cred, ret>>

(* the window is opened at the start URI and the wait for the redirect begins *)
Navigate ==
    /\ webview.state = "NavigatingToAuthUrl"
    /\ UNCHANGED <<serializer, cache, now, posts, sent, pc, call>>
    /\ IF Url_parts(webview.start_uri).host = ""
       THEN Finish(webview, Err("InvalidStartUri"))
       ELSE /\ webview' = [webview EXCEPT
                              !.state = "AwaitingRedirect",
                              !.navigations = @ + 1,
                              !.deadline = IF IsSome(webview.timeout)
                                           THEN Some(now + Unwrap(webview.timeout))
                                           ELSE None]
            /\ UNCHANGED <<cred, ret>>

(* the session with one more surface event seen *)
Counted(event) == [webview EXCEPT !.events = @ + 1, !.last = event]

(* Mutant: an event that arrives after the end is handled like any other *)
Surface_after_end(event, handled) ==
    /\ webview.state \in {"AwaitingRedirect"} \cup TerminalStates
    /\ UNCHANGED <<serializer, cache, now, posts, sent, pc, call>>
    /\ handled

(* a surface event reaches the flow; one that arrives after the end is ignored *)
Surface(event, handled) ==
    /\ webview.state \in {"AwaitingRedirect"} \cup TerminalStates
    /\ UNCHANGED <<serializer, cache, now, posts, sent, pc, call>>
    /\ IF webview.state \in TerminalStates
       THEN /\ webview' = [Counted(event) EXCEPT !.deadline =
                              IF event = "timeout" THEN None ELSE @]
            /\ UNCHANGED <<cred, ret>>
       ELSE handled

(* the window navigated to url *)
OnNavigation(url) ==
    /\ webview.events < MaxEvents
    /\ Surface("navigation",
               IF Url_parts(url).base = Url_parts(webview.redirect_uri).base
               THEN Finish(Counted("navigation"), redirect_outcome(url))
               ELSE IF url # AuthorizationUrl /\ webview.enforce
               THEN Finish(Counted("navigation"), Err("WindowClosedOnInvalidNavigation"))
               ELSE /\ webview' = Counted("navigation")
                    /\ UNCHANGED <<cred, ret>>)

(* the user closed the window *)
OnWindowClose ==
    /\ webview.events < MaxEvents
    /\ Surface("close", Finish(Counted("close"), Err("WindowClosedRequested")))

(* Mutant: the deadline closes nothing *)
OnTimeout_ignored ==
    /\ IsSome(webview.deadline)
    /\ now >= Unwrap(webview.deadline)
    /\ Surface("timeout",
               /\ webview' = [Counted("timeout") EXCEPT !.deadline = None]
               /\ UNCHANGED <<cred, ret>>)

(* the deadline timer fired: it fires once *)
OnTimeout ==
    /\ IsSome(webview.deadline)
    /\ now >= Unwrap(webview.deadline)
    /\ Surface("timeout",
               Finish([Counted("timeout") EXCEPT !.deadline = None],
                      Err("WindowClosedOnTimeoutReached")))

(* the channel between the window and the waiting caller broke *)
OnRecvError ==
    /\ webview.state = "AwaitingRedirect"
    /\ UNCHANGED <<serializer, cache, now, posts, sent, pc, call>>
    /\ Finish(webview, Err("RecvError"))

(* time passes towards the deadline *)
WaitTick(d) ==
    /\ IsSome(webview.deadline)
    /\ now < Unwrap(webview.deadline)
    /\ Tick(d)

RedirectUris == {"http://localhost", "http://localhost:8000", "https://app/callback"}

NavigatedUrls ==
    {"http://localhost:8000",
     "http://localhost:8000/?code=XYZ789&state=xyz",
     "https://app/callback",
     "https://app/callback?code=ABC123&state=xyz",
     "https://app/callback#code=DEF456&state=xyz",
     "https://app/callback?error=access_denied&error_description=denied",
     "https://app/callback?session=1",
     AuthorizationUrl,
     "https://elsewhere.example/"}

Timeouts == {None, Some(600)}

InitWebview ==
    /\ cred \in {AuthorizationCodeCredential(id, redirect, None) :
                    id \in {<<>>, <<"x">>}, redirect \in RedirectUris}
    /\ webview \in {WebViewSession(cred.redirect_uri, enforce, timeout, start) :
                       enforce \in BOOLEAN, timeout \in Timeouts,
                       start \in {AuthorizationUrl, ""}}
    /\ serializer = NewSerializer
    /\ cache = NoCache
    /\ now = 0
    /\ posts = 0
    /\ pc = [m \in Modes |-> "idle"]
    /\ call = [m \in Modes |-> NoCall]
    /\ ret = NoReturn
    /\ sent = NothingSent

NextWebview ==
    \/ StartInteractive
    \/ Navigate
    \/ \E url \in NavigatedUrls : OnNavigation(url)
    \/ OnWindowClose
    \/ OnTimeout
    \/ OnRecvError
    \/ WaitTick(300)

WebviewSpec == InitWebview /\ [][NextWebview]_vars

(* The program takes its steps, time passes and the deadline timer fires *)
FairWebviewSpec ==
    /\ WebviewSpec
    /\ WF_vars(StartInteractive)
    /\ WF_vars(Navigate)
    /\ WF_vars(WaitTick(300))
    /\ WF_vars(OnTimeout)

-----------------------------------------------------------------------------
(* ClientCredentialsAuthorizationUrl: the admin-consent URL of the client   *)
(* credentials flow, and its builder.  cred is the builder's credential.    *)

ClientCredentialsAuthorizationUrl(client_id, redirect_uri, state, authority) ==
    [kind |-> "ClientCredentialsAuthorizationUrl", client_id |-> client_id,
     redirect_uri |-> redirect_uri, state |-> state, authority |-> authority]

(* ClientCredentialsAuthorizationUrl::new *)
AuthorizationUrl_new(client_id, redirect_uri) ==
    ClientCredentialsAuthorizationUrl(client_id, redirect_uri, None, Common)

(* ClientCredentialsAuthorizationUrlBuilder::new *)
AuthorizationUrlBuilder_new ==
    ClientCredentialsAuthorizationUrl(<<>>, <<>>, None, Common)

(* OAuth::authority_admin_consent: the admin-consent endpoint of the host   *)
(* and authority, when the resolver has one                                 *)
authority_admin_consent(ser, host, a) ==
    IF resolve(host, a).ok
    THEN SerPut(ser, "AuthorizationUrl",
                cloud_as_ref(host) \o "/" \o authority_as_ref(a) \o "/adminconsent")
    ELSE ser

(* form_urlencoded::byte_serialize: a blank is written as "+" *)
byte_serialize(v) == [i \in DOMAIN v |-> IF v[i] = " " THEN "+" ELSE v[i]]

(* OAuth::form_encode_credentials: the pairs of the listed parameters the   *)
(* serializer holds, in the order listed, as Serializer::append_pair        *)
(* writes them                                                              *)
RECURSIVE form_encode_credentials(_, _)
form_encode_credentials(ser, pairs) ==
    IF pairs = <<>> THEN <<>>
    ELSE (IF SerHas(ser, Head(pairs))
          THEN <<[key |-> alias(Head(pairs)),
                  value |-> byte_serialize(ser.params[Head(pairs)])]>>
          ELSE <<>>)
         \o form_encode_credentials(ser, Tail(pairs))

(* OAuth::get_or_else *)
get_or_else(ser, k) ==
    IF SerHas(ser, k) THEN Ok(ser.params[k]) ELSE AF_result(alias(k))

(* Mutant: the redirect URI is not tested *)
url_with_host_redirect_unchecked(c, azure_authority_host) ==
    IF is_empty(trim(c.client_id))
    THEN AF_result(alias("ClientId"))
    ELSE
    LET s1 == SerPut(SerPut(NewSerializer, "ClientId", c.client_id),
                     "RedirectUri", c.redirect_uri)
        s2 == IF IsSome(c.state) THEN SerPut(s1, "State", Unwrap(c.state)) ELSE s1
        s3 == authority_admin_consent(s2, azure_authority_host, c.authority)
        encoder == form_encode_credentials(s3, <<"ClientId", "RedirectUri", "State">>)
        authorization_url == get_or_else(s3, "AuthorizationUrl")
    IN IF ~authorization_url.ok
       THEN AF_result(alias("AuthorizationUrl"))
       ELSE IF ~Url_parse(authorization_url.val).ok
       THEN AF_result(alias("AuthorizationUrl"))
       ELSE Ok([url |-> Url_parse(authorization_url.val).val, query |-> Some(encoder)])

(* ClientCredentialsAuthorizationUrl::url_with_host *)
url_with_host(c, azure_authority_host) ==
    IF is_empty(trim(c.client_id))
    THEN AF_result(alias("ClientId"))
    ELSE IF is_empty(trim(c.redirect_uri))
    THEN AF_result(alias("RedirectUri"))
    ELSE
    LET s1 == SerPut(SerPut(NewSerializer, "ClientId", c.client_id),
                     "RedirectUri", c.redirect_uri)
        s2 == IF IsSome(c.state) THEN SerPut(s1, "State", Unwrap(c.state)) ELSE s1
        s3 == authority_admin_consent(s2, azure_authority_host, c.authority)
        encoder == form_encode_credentials(s3, <<"ClientId", "RedirectUri", "State">>)
        authorization_url == get_or_else(s3, "AuthorizationUrl")
    IN IF ~authorization_url.ok
       THEN AF_result(alias("AuthorizationUrl"))
       ELSE IF ~Url_parse(authorization_url.val).ok
       THEN AF_result(alias("AuthorizationUrl"))
       ELSE Ok([url |-> Url_parse(authorization_url.val).val, query |-> Some(encoder)])

(* ClientCredentialsAuthorizationUrl::url *)
AuthorizationUrl_url(c) == url_with_host(c, "AzurePublic")

(* a setter of the builder: the credential changes, the builder is returned *)
AuthorizationUrlSetter(op, c) ==
    /\ cred.kind = "ClientCredentialsAuthorizationUrl"
    /\ cred' = c
    /\ ret' = BuilderReturned(op, TRUE)
    /\ UNCHANGED <<serializer, cache, now, posts, sent, webview, pc, call>>

AuthorizationUrl_with_client_id(client_id) ==
    AuthorizationUrlSetter("with_client_id", [cred EXCEPT !.client_id = client_id])

AuthorizationUrl_with_redirect_uri(redirect_uri) ==
    AuthorizationUrlSetter("with_redirect_uri", [cred EXCEPT !.redirect_uri = redirect_uri])

with_tenant(tenant) ==
    AuthorizationUrlSetter("with_tenant", [cred EXCEPT !.authority = TenantId(tenant)])

with_authority(authority) ==
    AuthorizationUrlSetter("with_authority", [cred EXCEPT !.authority = authority])

with_state(state) ==
    AuthorizationUrlSetter("with_state", [cred EXCEPT !.state = Some(state)])

(* build() hands out a clone; a caller calls url_with_host or url on it *)
CallUrlWithHost(azure_authority_host) ==
    /\ cred.kind = "ClientCredentialsAuthorizationUrl"
    /\ ret' = ReturnedResult("url_with_host", url_with_host(cred, azure_authority_host))
    /\ UNCHANGED <<cred, serializer, cache, now, posts, sent, webview, pc, call>>

CallUrl ==
    /\ cred.kind = "ClientCredentialsAuthorizationUrl"
    /\ ret' = ReturnedResult("url", AuthorizationUrl_url(cred))
    /\ UNCHANGED <<cred, serializer, cache, now, posts, sent, webview, pc, call>>

InitAuthorizationUrl ==
    /\ \/ cred = AuthorizationUrlBuilder_new /\ ret = BuilderReturned("builder", TRUE)
       \/ \E client_id \in BuilderStrs, redirect_uri \in BuilderStrs :
             /\ cred = AuthorizationUrl_new(client_id, redirect_uri)
             /\ ret = BuilderReturned("new", TRUE)
    /\ serializer = NewSerializer
    /\ cache = NoCache
    /\ now = 0
    /\ posts = 0
    /\ pc = [m \in Modes |-> "idle"]
    /\ call = [m \in Modes |-> NoCall]
    /\ sent = NothingSent
    /\ webview = NoWebview

NextAuthorizationUrl ==
    \/ \E s \in BuilderStrs : AuthorizationUrl_with_client_id(s)
    \/ \E s \in BuilderStrs : AuthorizationUrl_with_redirect_uri(s)
    \/ \E t \in {"", "tenant"} : with_tenant(t)
    \/ \E a \in {Common, TenantId("tenant")} : with_authority(a)
    \/ \E s \in {<<>>, <<"x">>} : with_state(s)
    \/ \E h \in {"AzurePublic", "AzureChina"} : CallUrlWithHost(h)
    \/ CallUrl

AuthorizationUrlSpec == InitAuthorizationUrl /\ [][NextAuthorizationUrl]_vars

-----------------------------------------------------------------------------
(* Properties of the token cache *)

IsClientSecret == cred.kind = "ClientSecret"

HasEntry == IsClientSecret /\ cache_id(cred) \in DOMAIN cache

Entry == cache[cache_id(cred)]

Remaining(token) == (token.timestamp + token.expires_in) - now

(* C1: a get_token_silent (or get_token_silent_async) that finds a token    *)
(* stored under the credential's cache identity, not expired within the     *)
(* 5-minute margin, returns exactly that token, sends no POST and leaves    *)
(* the cache unchanged.                                                     *)
C1_CacheHit ==
    [][\A m \in Modes :
         (/\ GetTokenSilent(m)
          /\ HasEntry
          /\ ~is_expired_sub(Entry, MarginSeconds, now))
         => /\ ret' = Returned(m, "get_token_silent", "hit", Some(Entry), None, None)
            /\ posts' = posts
            /\ pc' = pc
            /\ call' = call
            /\ cache' = cache]_vars

(* A hit has been returned while the entry was fresh *)
C1_Witness ==
    /\ ret.op = "get_token_silent"
    /\ ret.outcome = "hit"
    /\ HasEntry
    /\ ret.token = Some(Entry)
    /\ ~is_expired_sub(Entry, MarginSeconds, now)
    /\ posts >= 1

(* C2: on a miss or an expired entry, when the token request succeeds, the  *)
(* parsed token is stored under the cache identity, replacing any prior     *)
(* entry, and that same token is returned; a token with expires_in = 3600   *)
(* is then not expired within 5 minutes, and a second get_token_silent made *)
(* at once returns it without a second request.                             *)
C2_MissStoresAndReturns ==
    [][\A m \in Modes :
         /\ (/\ Respond(m)
             /\ call[m].op = "get_token_silent"
             /\ ret'.outcome # "error")
            => /\ ret'.outcome = "token"
               /\ ret'.mode = m
               /\ Unwrap(ret'.token).access_token = call[m].id
               /\ Unwrap(ret'.token).timestamp = now
               /\ DOMAIN cache' = (DOMAIN cache) \cup {cache_id(cred)}
               /\ cache'[cache_id(cred)] = Unwrap(ret'.token)
               /\ \A x \in DOMAIN cache : x # cache_id(cred) => cache'[x] = cache[x]
               /\ (Unwrap(ret'.token).expires_in = 3600
                      => ~is_expired_sub(cache'[cache_id(cred)], MarginSeconds, now'))
         /\ (/\ GetTokenSilent(m)
             /\ ret.op = "get_token_silent"
             /\ ret.outcome = "token"
             /\ Unwrap(ret.token).expires_in = 3600
             /\ Unwrap(ret.token).timestamp = now)
            => /\ ret' = Returned(m, "get_token_silent", "hit", ret.token, None, None)
               /\ posts' = posts
               /\ pc' = pc]_vars

(* A token acquired by a second or later request replaced the entry and a   *)
(* lookup made at the same instant returned it                              *)
C2_Witness ==
    /\ ret.op = "get_token_silent"
    /\ ret.outcome = "hit"
    /\ HasEntry
    /\ ret.token = Some(Entry)
    /\ Entry.timestamp = now
    /\ Entry.expires_in = 3600
    /\ Entry.access_token >= 2
    /\ posts = Entry.access_token

(* C3: with a token issued at T with expires_in = 3600 in the cache, a      *)
(* lookup with less than 300 s remaining (T + 3595) sends a token request,  *)
(* and a lookup with more than 300 s remaining (T + 3000) returns the       *)
(* cached token and sends none.                                             *)
C3_MarginDecidesRefresh ==
    [][\A m \in Modes :
         (GetTokenSilent(m) /\ HasEntry)
         => /\ Remaining(Entry) < 300
               => /\ posts' = posts + 1
                  /\ pc'[m] = "sent"
                  /\ call'[m].op = "get_token_silent"
                  /\ ret' = ret
            /\ Remaining(Entry) > 300
               => /\ ret'.outcome = "hit"
                  /\ ret'.token = Some(Entry)
                  /\ posts' = posts
                  /\ pc' = pc]_vars

(* A refresh is in flight that was started 3595 s after the cached token was *)
(* issued, the lookup at 3000 s having returned the token                    *)
C3_Witness ==
    \E m \in Modes :
        /\ pc[m] = "sent"
        /\ call[m].op = "get_token_silent"
        /\ HasEntry
        /\ Entry.expires_in = 3600
        /\ now = Entry.timestamp + 3595
        /\ ret.outcome = "hit"
        /\ ret.token = Some(Entry)

-----------------------------------------------------------------------------
(* Properties of the serializer and the executor *)

IsBlank(s) == \A i \in 1..Len(s) : s[i] = " "

NilUuidString == "00000000-0000-0000-0000-000000000000"

RequiredValue(name) == [kind |-> "RequiredValue", name |-> name, message |-> None]

FormReturned == ret.op = "form_urlencode"

FormFailedNaming(name) ==
    /\ ret.outcome = "error"
    /\ ret.value = None
    /\ IsSome(ret.err)
    /\ Unwrap(ret.err).kind = "RequiredValue"
    /\ Unwrap(ret.err).name = name

(* C4: every map form_urlencode returns for a client-secret credential has  *)
(* neither a client_id nor a client_secret key; the two values are the      *)
(* Basic-auth pair returned by basic_auth.                                  *)
C4_NoCredentialsInForm ==
    (FormReturned /\ IsClientSecret /\ ret.outcome = "ok")
    => /\ "client_id" \notin DOMAIN Unwrap(ret.value)
       /\ "client_secret" \notin DOMAIN Unwrap(ret.value)
       /\ DOMAIN Unwrap(ret.value) = {"grant_type", "scope"}
       /\ basic_auth(cred) = Some(<<uuid_to_string(cred.client_id), cred.client_secret>>)

(* form_urlencode returned a map for a client-secret credential with a      *)
(* padded secret                                                            *)
C4_Witness ==
    /\ FormReturned
    /\ IsClientSecret
    /\ ret.outcome = "ok"
    /\ cred.client_secret = <<" ", "x">>

(* C5: every request in flight for a client-secret credential carries a     *)
(* Basic-auth pair whose client id is not empty and not the nil UUID and    *)
(* whose secret is not blank.                                               *)
C5_SentSecretNotBlank ==
    \A m \in Modes :
        (pc[m] = "sent" /\ IsClientSecret)
        => LET r == Unwrap(call[m].request) IN
           /\ IsSome(r.basic_auth)
           /\ Unwrap(r.basic_auth)[1] = uuid_to_string(cred.client_id)
           /\ Len(Unwrap(r.basic_auth)[1]) > 0
           /\ Unwrap(r.basic_auth)[1] # NilUuidString
           /\ Unwrap(r.basic_auth)[2] = cred.client_secret
           /\ ~IsBlank(Unwrap(r.basic_auth)[2])

(* Both modes have had a request of a client-secret credential in flight *)
C5_Witness ==
    /\ IsClientSecret
    /\ pc["async"] = "sent"
    /\ posts >= 2

ExpectedValidationError ==
    LET u == uri(cred, serializer) IN
    IF ~u.res.ok THEN Some(u.res.err)
    ELSE LET f == form_urlencode(u.cred, u.ser) IN
         IF ~f.res.ok THEN Some(f.res.err) ELSE None

FreshHit == HasEntry /\ ~is_expired_sub(Entry, MarginSeconds, now)

(* C6: when uri or form_urlencode fails, execute, execute_async and         *)
(* get_token_silent return that error without sending a request, and no     *)
(* request is left in flight.                                               *)
C6_ValidationBeforeNetwork ==
    [][\A m \in Modes :
         (/\ Execute(m) \/ (GetTokenSilent(m) /\ ~FreshHit)
          /\ IsSome(ExpectedValidationError))
         => /\ ret'.mode = m
            /\ ret'.outcome = "error"
            /\ ret'.err = ExpectedValidationError
            /\ ret'.token = None
            /\ posts' = posts
            /\ pc' = pc
            /\ call' = call
            /\ cache' = cache]_vars

(* get_token_silent returned the validation error and nothing was ever sent *)
C6_Witness ==
    /\ ret.op = "get_token_silent"
    /\ ret.outcome = "error"
    /\ IsSome(ExpectedValidationError)
    /\ ret.err = ExpectedValidationError
    /\ Unwrap(ret.err).name = "client_secret"
    /\ posts = 0
    /\ Exclusive

OtherMode(m) == IF m = "blocking" THEN "async" ELSE "blocking"

(* C7: the request execute sends and the request execute_async sends for    *)
(* the same credential state are the same: URI, form fields and headers,    *)
(* with and without basic_auth.                                             *)
C7_SameRequestBothModes ==
    \A m \in Modes :
        pc[m] = "sent"
        => LET p == authorization_request_parts(cred, serializer) IN
           /\ p.res.ok
           /\ Unwrap(call[m].request) = request_of(OtherMode(m), p.res.val)

(* C8: a call sends at most one POST; when send() returns, with a response  *)
(* or with an error, the call returns to its caller and nothing is re-sent. *)
C8_NoRetry ==
    [][/\ posts' \in {posts, posts + 1}
       /\ \A m \in Modes :
            /\ pc[m] = "sent" => posts' = posts
            /\ (pc[m] = "sent" /\ (pc'[m] # "sent" \/ call'[m] # call[m]))
               => /\ pc'[m] = "idle"
                  /\ ret'.mode = m
                  /\ ret'.op = call[m].op
            /\ (pc[m] = "idle" /\ pc'[m] = "sent") => posts' = posts + 1]_vars

(* A request failed in transit and the call returned the error; one POST    *)
(* was sent                                                                 *)
C8_Witness ==
    /\ ret.outcome = "error"
    /\ IsSome(ret.err)
    /\ Unwrap(ret.err).kind = "Transport"
    /\ posts = 1
    /\ Exclusive

EmptyClientId ==
    IF IsClientSecret THEN cred.client_id = 0 ELSE IsBlank(cred.client_id)

(* C9: form_urlencode on a credential whose client id is empty (blank, or   *)
(* the nil UUID for the client-secret credential) fails with the missing    *)
(* client_id error, whatever the other fields hold, and returns no map.     *)
C9_EmptyClientIdFails ==
    (FormReturned /\ EmptyClientId)
    => /\ FormFailedNaming("client_id")
       /\ ret.err = Some(RequiredValue("client_id"))

(* form_urlencode failed on a certificate credential whose client id is one *)
(* blank although its other fields are valid                                *)
C9_Witness ==
    /\ FormReturned
    /\ ~IsClientSecret
    /\ cred.client_id = <<" ">>
    /\ cred.client_assertion = <<"x">>
    /\ cred.refresh_token = Some(<<"x">>)
    /\ ret.outcome = "error"

PresentAndBlank(o) == IsSome(o) /\ IsBlank(Unwrap(o))

(* C10 as stated: with a valid client id, a blank client secret, a blank    *)
(* client assertion, a present blank refresh token or a present blank       *)
(* authorization code makes form_urlencode fail with the required-value     *)
(* error that names the field, and no map is returned.                      *)
C10_BlankSecretFails_AsStated ==
    (FormReturned /\ ~EmptyClientId)
    => IF IsClientSecret
       THEN IsBlank(cred.client_secret) => FormFailedNaming("client_secret")
       ELSE /\ IsBlank(cred.client_assertion) => FormFailedNaming("client_assertion")
            /\ (~IsBlank(cred.client_assertion) /\ PresentAndBlank(cred.refresh_token))
               => FormFailedNaming("refresh_token")
            /\ (/\ ~IsBlank(cred.client_assertion)
                /\ ~PresentAndBlank(cred.refresh_token)
                /\ PresentAndBlank(cred.authorization_code))
               => FormFailedNaming(alias("AuthorizationCode"))

(* C10, amended: the authorization code is checked only when no refresh     *)
(* token is set.                                                            *)
C10_BlankSecretFails ==
    (FormReturned /\ ~EmptyClientId)
    => IF IsClientSecret
       THEN IsBlank(cred.client_secret) => FormFailedNaming("client_secret")
       ELSE /\ IsBlank(cred.client_assertion) => FormFailedNaming("client_assertion")
            /\ (~IsBlank(cred.client_assertion) /\ PresentAndBlank(cred.refresh_token))
               => FormFailedNaming("refresh_token")
            /\ (/\ ~IsBlank(cred.client_assertion)
                /\ cred.refresh_token = None
                /\ PresentAndBlank(cred.authorization_code))
               => FormFailedNaming(alias("AuthorizationCode"))

(* form_urlencode failed naming the authorization code, which is two blanks *)
C10_Witness ==
    /\ FormReturned
    /\ ~IsClientSecret
    /\ cred.refresh_token = None
    /\ cred.authorization_code = Some(<<" ", " ">>)
    /\ FormFailedNaming(alias("AuthorizationCode"))

-----------------------------------------------------------------------------
(* Properties of the grant selection *)

FormOk == FormReturned /\ ret.outcome = "ok"

GrantTypeReturned == Unwrap(ret.value)["grant_type"]

(* C11: on every successful form_urlencode, grant_type is "refresh_token"   *)
(* when a refresh token is set (also next to an authorization code),        *)
(* "authorization_code" when only an authorization code is set, and         *)
(* "client_credentials" for the client-secret credential.                   *)
C11_GrantTypeBySecret ==
    FormOk
    => /\ "grant_type" \in DOMAIN Unwrap(ret.value)
       /\ IF IsClientSecret
          THEN GrantTypeReturned = "client_credentials"
          ELSE IF cred.refresh_token # None
          THEN GrantTypeReturned = "refresh_token"
          ELSE /\ cred.authorization_code # None
               /\ GrantTypeReturned = "authorization_code"

(* form_urlencode succeeded on a certificate credential that holds both an  *)
(* authorization code and a refresh token                                   *)
C11_Witness ==
    /\ FormOk
    /\ ~IsClientSecret
    /\ cred.refresh_token # None
    /\ cred.authorization_code # None
    /\ GrantTypeReturned = "refresh_token"

-----------------------------------------------------------------------------
(* Properties of the builder *)

ExactlyOneSecret == IsSome(cred.authorization_code) <=> ~IsSome(cred.refresh_token)

(* C12: a certificate credential returned by new, or by a builder call that *)
(* sets the authorization code or the refresh token, has exactly one of     *)
(* authorization_code and refresh_token set.                                *)
C12_ExactlyOneSecret ==
    ret.op \in {"new", "with_authorization_code", "with_refresh_token"}
    => ExactlyOneSecret

NoSecretSet ==
    /\ ~IsClientSecret
    /\ ~IsBlank(cred.client_id)
    /\ ~IsBlank(cred.client_assertion)
    /\ cred.authorization_code = None
    /\ cred.refresh_token = None

BothSecretsMissing ==
    [kind |-> "RequiredValue", name |-> "code or refresh_token",
     message |-> Some("Either authorization code or refresh token is required")]

(* C13: on a certificate credential with valid client id and assertion and  *)
(* neither an authorization code nor a refresh token, form_urlencode fails  *)
(* with the validation error that names both fields and returns no map, and *)
(* execute (blocking or not) returns that error and sends no request.       *)
C13_NoSecretFails ==
    [][\A m \in Modes :
         (Execute(m) /\ NoSecretSet)
         => /\ form_urlencode(cred, serializer).res = Err(BothSecretsMissing)
            /\ ret' = Returned(m, "execute", "error", None, None, Some(BothSecretsMissing))
            /\ posts' = posts
            /\ pc' = pc
            /\ call' = call]_vars

(* execute returned the error naming both fields and nothing was sent *)
C13_Witness ==
    /\ NoSecretSet
    /\ ret.op = "execute"
    /\ ret.outcome = "error"
    /\ ret.err = Some(BothSecretsMissing)
    /\ posts = 0
    /\ Exclusive

-----------------------------------------------------------------------------
(* Properties of the endpoint resolution *)

(* what uri returns on the credential as constructed, before any other call *)
FirstUri == uri(cred, NewSerializer).res

(* C15: every call of uri returns what the first call on the credential     *)
(* returned, whatever uri and form_urlencode calls were made before it: the *)
(* authority and the cloud instance do not change, and the result does not  *)
(* depend on what the serializer has accumulated.                           *)
C15_UriIdempotent ==
    [][CallUri
       => /\ ret' = ReturnedResult("uri", FirstUri)
          /\ FirstUri' = FirstUri]_vars

(* uri returned the token endpoint after form_urlencode had filled the      *)
(* serializer                                                               *)
C15_Witness ==
    /\ ret.op = "uri"
    /\ ret.outcome = "ok"
    /\ ret.value = Some("https://login.microsoftonline.com/tenant-id/oauth2/v2.0/token")
    /\ SerHas(serializer, "GrantType")
    /\ SerHas(serializer, "TokenUrl")

EmptyTenant == cred.authority.variant = "TenantId" /\ cred.authority.tenant = ""

(* C16: uri returns a MissingTenantId error when the authority is a         *)
(* specific tenant with an empty tenant string, and a URL for every other   *)
(* authority.                                                               *)
C16_MissingTenantIdReported ==
    ret.op = "uri"
    => IF EmptyTenant
       THEN /\ ret.outcome = "error"
            /\ Unwrap(ret.err).kind = "MissingTenantId"
       ELSE ret.outcome = "ok"

OpenidPath == "/v2.0/.well-known/openid-configuration"

CloudBase ==
    CASE cred.azure_cloud_instance = "AzurePublic" -> "https://login.microsoftonline.com"
      [] cred.azure_cloud_instance = "AzureChina" -> "https://login.chinacloudapi.cn"
      [] cred.azure_cloud_instance = "AzureGermany" -> "https://login.microsoftonline.de"
      [] cred.azure_cloud_instance = "AzureUsGovernment" -> "https://login.microsoftonline.us"

AuthoritySegment ==
    IF cred.authority.variant = "TenantId" THEN cred.authority.tenant ELSE "common"

(* C17: openid_configuration_url returns                                    *)
(* "{cloud instance base}/{authority}/v2.0/.well-known/openid-configuration" *)
(* for every cloud instance and authority: the segment is the tenant id     *)
(* when a tenant was set and "common" when none was, on                     *)
(* login.microsoftonline.com for the public cloud.                          *)
C17_OpenidConfigurationUrl ==
    ret.op = "openid_configuration_url"
    => /\ ret.outcome = "ok"
       /\ ret.value = Some(CloudBase \o "/" \o AuthoritySegment \o OpenidPath)
       /\ (cred.azure_cloud_instance = "AzurePublic" /\ cred.authority = Common)
          => ret.value = Some("https://login.microsoftonline.com/common/v2.0/.well-known/openid-configuration")
       /\ (cred.azure_cloud_instance = "AzurePublic" /\ cred.authority = TenantId("tenant-id"))
          => ret.value = Some("https://login.microsoftonline.com/tenant-id/v2.0/.well-known/openid-configuration")

(* the discovery URL of a tenant on another cloud instance was returned *)
C17_Witness ==
    /\ ret.op = "openid_configuration_url"
    /\ cred.azure_cloud_instance = "AzureChina"
    /\ cred.authority = TenantId("tenant-id")
    /\ ret.value = Some("https://login.chinacloudapi.cn/tenant-id/v2.0/.well-known/openid-configuration")

-----------------------------------------------------------------------------
(* Properties of the error propagation *)

(* C18: every call of an executor or cache operation that has ended handed  *)
(* its caller a value: a result or an error; none ended any other way.      *)
C18_FailuresReturned ==
    ret.op # "none" => ret.outcome \in {"ok", "hit", "token", "response", "error"}

(* C19: when the token endpoint answers a get_token_silent request with a   *)
(* non-2xx status, the call returns a transport error, which differs from   *)
(* the deserialization error returned for a 2xx reply whose body is not a   *)
(* token.                                                                   *)
C19_StatusIsTransportError ==
    [][\A m \in Modes :
         (/\ pc[m] = "sent"
          /\ call[m].op = "get_token_silent"
          /\ Complete(m, HttpResponse(400, ErrorBody)))
         => /\ ret'.outcome = "error"
            /\ Unwrap(ret'.err).kind = "Transport"
            /\ ret'.err # Some(json_token(HttpResponse(200, ErrorBody), now).err)]_vars

-----------------------------------------------------------------------------
(* Properties of concurrent callers *)

(* C20: two callers of get_token_silent on clones that share the token      *)
(* store.  A caller that finds no fresh token sends its own request also    *)
(* while the other caller's request is in flight, leaving that request as  *)
(* it is; a request in flight can always complete, whatever the other       *)
(* caller is doing; and every completed refresh stores its own token over   *)
(* whatever the store holds, so the store holds the token stored last.      *)
C20_RefreshRace ==
    [][\A m \in Modes :
         /\ pc[m] = "sent" => ENABLED Respond(m)
         /\ (/\ GetTokenSilentOnClone(m)
             /\ pc[OtherMode(m)] = "sent"
             /\ ~FreshHit
             /\ ExpectedValidationError = None)
            => /\ posts' = posts + 1
               /\ pc'[m] = "sent"
               /\ pc'[OtherMode(m)] = "sent"
               /\ call'[OtherMode(m)] = call[OtherMode(m)]
         /\ (/\ Respond(m)
             /\ ret'.outcome = "token")
            => /\ Unwrap(ret'.token).access_token = call[m].id
               /\ cache'[cache_id(cred)] = Unwrap(ret'.token)
               /\ pc'[OtherMode(m)] = pc[OtherMode(m)]]_vars

(* two refreshes are in flight although the store already holds a token     *)
(* that an earlier refresh stored                                           *)
C20_Witness ==
    /\ \A m \in Modes : pc[m] = "sent" /\ call[m].op = "get_token_silent"
    /\ call["blocking"].id # call["async"].id
    /\ HasEntry
    /\ posts = 3

-----------------------------------------------------------------------------
(* Properties of the cache identity *)

(* What the token endpoint is told of a credential: the client id, the      *)
(* tenant (in the URI) and the scopes of the request built from its fields  *)
RequestIdentity(log_entry) ==
    [uri |-> log_entry.uri, client_id |-> Unwrap(log_entry.basic_auth)[1],
     scope |-> log_entry.scope]

OwnIdentity(c) ==
    LET own == authorization_request_parts([c EXCEPT !.client_secret = <<"x">>],
                                           NewSerializer)
    IN RequestIdentity(received(NothingSent, 0, own.res.val, own.ser)[0])

ReturnsToken == ret.op = "get_token_silent" /\ ret.outcome \in {"hit", "token"}

(* C21: every token that get_token_silent returns was issued for a request  *)
(* that carries the client id, the tenant and the scopes of the credential  *)
(* it is returned to, also for credentials cloned from one builder.         *)
C21_NoTokenCrossesIdentities ==
    ReturnsToken
    => RequestIdentity(sent[Unwrap(ret.token).access_token]) = OwnIdentity(cred)

(* client id, tenant and scope set of a credential *)
IdentityTriple(c) == <<c.client_id, c.authority, SeqToSet(c.scope)>>

(* C22: two credentials use the same cache identity exactly when they have  *)
(* the same client id, tenant and scope set (the order of the scopes does   *)
(* not matter); here the two are the builder's credential before and after  *)
(* a step.                                                                  *)
C22_CacheIdentityByTriple ==
    [][(cache_id(cred') = cache_id(cred))
       <=> (IdentityTriple(cred') = IdentityTriple(cred))]_vars

(* C23: an identity that has an entry has one in every later state; an      *)
(* entry changes only when a get_token_silent call returns a new token,     *)
(* which is then the entry of the credential's identity, and a refresh that *)
(* fails leaves the store as it is.                                         *)
C23_NeverEvicted ==
    [][/\ \A id \in DOMAIN cache : id \in DOMAIN cache'
       /\ cache' # cache
          => /\ ret'.op = "get_token_silent" /\ ret'.outcome = "token"
             /\ cache'[cred.cache_id] = Unwrap(ret'.token)
             /\ \A id \in DOMAIN cache : id # cred.cache_id => cache'[id] = cache[id]
       /\ (ret' # ret /\ ret'.outcome = "error") => cache' = cache]_vars

(* a refresh of an expired entry has failed and the entry is still there *)
C23_Witness ==
    /\ ret.op = "get_token_silent"
    /\ ret.outcome = "error"
    /\ posts >= 2
    /\ HasEntry
    /\ is_expired_sub(Entry, MarginSeconds, now)

-----------------------------------------------------------------------------
(* Properties of the interactive flow *)

Ended == webview.state \in TerminalStates

(* C24: Succeeded and Failed are absorbing: once the flow has ended, no     *)
(* navigation, window close or timeout changes its state, its failure kind, *)
(* its response, what was returned to the caller or the credential.         *)
C24_TerminalAbsorbing ==
    [][Ended => /\ webview'.state = webview.state
                /\ webview'.kind = webview.kind
                /\ webview'.response = webview.response
                /\ ret' = ret
                /\ cred' = cred]_vars

(* the flow has succeeded and, after that, a navigation, a close request or *)
(* the timer reached it, the last of them the timer                         *)
C24_Witness ==
    /\ webview.state = "Succeeded"
    /\ webview.events >= 3
    /\ webview.last = "timeout"

C26_TimeoutEndsFlow ==
    /\ [][(/\ webview.state = "AwaitingRedirect"
           /\ webview'.last = "timeout"
           /\ webview'.events = webview.events + 1)
          => /\ webview'.state = "Failed"
             /\ webview'.kind = "WindowClosedOnTimeoutReached"
             /\ ret'.err = Some("WindowClosedOnTimeoutReached")]_vars
    /\ IsSome(webview.timeout) ~> Ended

(* the flow waited until the deadline and was ended by the timer *)
C26_Witness ==
    /\ webview.state = "Failed"
    /\ webview.kind = "WindowClosedOnTimeoutReached"
    /\ now >= 600
    /\ webview.navigations = 1

(* the redirects that carry a code, and the code they carry *)
CodeOf(url) ==
    CASE url = "https://app/callback?code=ABC123&state=xyz" -> Some("ABC123")
      [] url = "https://app/callback#code=DEF456&state=xyz" -> Some("DEF456")
      [] url = "http://localhost:8000/?code=XYZ789&state=xyz" -> Some("XYZ789")
      [] OTHER -> None

IsRedirect(url) == Url_parts(url).base = Url_parts(webview.redirect_uri).base

(* C27: when the awaited redirect arrives with a code in its query or its   *)
(* fragment, the flow ends in Succeeded, and the code returned and handed   *)
(* to the credential is the code parameter of that URL.                     *)
C27_CodeExtracted ==
    [][\A url \in NavigatedUrls :
         (/\ webview.state = "AwaitingRedirect"
          /\ IsRedirect(url)
          /\ IsSome(CodeOf(url))
          /\ OnNavigation(url))
         => /\ webview'.state = "Succeeded"
            /\ Unwrap(webview'.response).code = CodeOf(url)
            /\ Unwrap(ret'.value).code = CodeOf(url)
            /\ cred'.authorization_code = CodeOf(url)]_vars

C27_Witness ==
    /\ webview.state = "Succeeded"
    /\ webview.redirect_uri = "https://app/callback"
    /\ cred.authorization_code = Some("ABC123")
    /\ ret.outcome = "ok"

(* C28: when the awaited redirect arrives at a URL with neither a query nor *)
(* a fragment, the flow ends in Failed(RedirectUriMissingQueryOrFragment),  *)
(* not in Succeeded.                                                        *)
C28_RedirectWithoutQueryOrFragment ==
    [][\A url \in NavigatedUrls :
         (/\ webview.state = "AwaitingRedirect"
          /\ IsRedirect(url)
          /\ Url_parts(url).query = None
          /\ Url_parts(url).fragment = None
          /\ OnNavigation(url))
         => /\ webview'.state = "Failed"
            /\ webview'.kind = "RedirectUriMissingQueryOrFragment"
            /\ ret'.err = Some("RedirectUriMissingQueryOrFragment")
            /\ cred'.authorization_code = None]_vars

C28_Witness ==
    /\ webview.state = "Failed"
    /\ webview.kind = "RedirectUriMissingQueryOrFragment"
    /\ webview.redirect_uri = "https://app/callback"
    /\ webview.last = "navigation"

(* C29: a flow that has failed has one failure kind, one of the ten that    *)
(* the caller matches, and that kind is what was returned to the caller; a  *)
(* flow that has ended has returned its outcome, and one that has not ended *)
(* has returned nothing.                                                    *)
C29_FailureKinds ==
    /\ webview.state = "Failed"
       => /\ webview.kind \in WebViewExecutionErrors
          /\ ret.op = "with_interactive_authentication"
          /\ ret.outcome = "error"
          /\ ret.err = Some(webview.kind)
    /\ webview.state = "Succeeded"
       => /\ webview.kind = "none"
          /\ ret.op = "with_interactive_authentication"
          /\ ret.outcome = "ok"
          /\ ret.value = webview.response
    /\ ~Ended => ret = NoReturn /\ webview.kind = "none"

(* a flow failed while waiting, after the window had navigated elsewhere *)
C29_Witness ==
    /\ webview.state = "Failed"
    /\ webview.kind = "WindowClosedOnInvalidNavigation"
    /\ webview.events >= 2
    /\ ret.err = Some("WindowClosedOnInvalidNavigation")

-----------------------------------------------------------------------------
(* The client assertion of a credential made by the builder *)

(* No caller hands the assertion type in as the assertion: a credential     *)
(* that holds it there was never given an assertion.                        *)
AssertionNeverSupplied ==
    /\ cred.kind = "Certificate"
    /\ cred.client_assertion = CLIENT_ASSERTION_TYPE

(* C30: form_urlencode on a certificate credential that has a client id and *)
(* a non-blank authorization code or refresh token, but no client assertion *)
(* supplied by the caller, fails with the missing client_assertion error    *)
(* and returns no form map.                                                 *)
C30_MissingAssertionFails ==
    (/\ FormReturned
     /\ AssertionNeverSupplied
     /\ ~IsBlank(cred.client_id)
     /\ \E o \in {cred.authorization_code, cred.refresh_token} :
           IsSome(o) /\ ~IsBlank(Unwrap(o)))
    => FormFailedNaming("client_assertion")

-----------------------------------------------------------------------------
(* Requests made with a refresh token *)

IsCertificate == cred.kind = "Certificate"

FormKeys == DOMAIN Unwrap(ret.value)

(* C31: whenever form_urlencode succeeds on a certificate credential whose *)
(* refresh_token is set, the returned map holds refresh_token and          *)
(* grant_type = "refresh_token" and has no code, redirect_uri or           *)
(* code_verifier key, also when the serializer the credential keeps was    *)
(* filled by an earlier authorization-code request.                        *)
C31_RefreshRequestHasNoCode ==
    (FormOk /\ IsCertificate /\ IsSome(cred.refresh_token))
    => /\ "refresh_token" \in FormKeys
       /\ Unwrap(ret.value)["refresh_token"] = Unwrap(cred.refresh_token)
       /\ GrantTypeReturned = "refresh_token"
       /\ FormKeys \cap {"code", "redirect_uri", "code_verifier"} = {}

(* a refresh request returned by a credential whose serializer still holds *)
(* the authorization code, redirect URI and grant of an earlier request    *)
C31_Witness ==
    /\ FormOk /\ IsCertificate
    /\ IsSome(cred.refresh_token)
    /\ cred.authorization_code = None
    /\ SerHas(serializer, "AuthorizationCode")
    /\ SerHas(serializer, "RedirectUri")

(* C32: redirect_uri is optional for the certificate credential: with a    *)
(* client id, a client assertion and an authorization code that are not    *)
(* blank and no redirect_uri set, form_urlencode succeeds and the map it   *)
(* returns has no redirect_uri key.                                        *)
C32_RedirectUriOptional ==
    (/\ FormReturned /\ IsCertificate
     /\ ~IsBlank(cred.client_id)
     /\ ~IsBlank(cred.client_assertion)
     /\ cred.refresh_token = None
     /\ IsSome(cred.authorization_code)
     /\ ~IsBlank(Unwrap(cred.authorization_code))
     /\ cred.redirect_uri = None)
    => (FormOk /\ "redirect_uri" \notin FormKeys)

-----------------------------------------------------------------------------
(* Redirect URIs handed to the certificate credential *)

GivenMalformed ==
    /\ ret.op \in {"new", "with_redirect_uri", "from"}
    /\ IsSome(ret.given)
    /\ ~into_url(Unwrap(ret.given)).ok

(* C33: a malformed redirect URI handed to new, to with_redirect_uri or to *)
(* the conversion from authorization-URL parameters is reported to the     *)
(* caller as an error; no credential without redirect_uri is built from it *)
(* as if the call had succeeded.                                           *)
C33_MalformedRedirectUriReported ==
    GivenMalformed => ret.outcome = "error"

-----------------------------------------------------------------------------
(* The admin-consent URL of the client credentials flow *)

UrlReturned == ret.op = "url_with_host"

QueryKeys ==
    {Unwrap(Unwrap(ret.value).query)[i].key :
        i \in 1..Len(Unwrap(Unwrap(ret.value).query))}

(* C34: url_with_host returns the required-value error naming client_id    *)
(* when the client id is blank, otherwise the one naming redirect_uri when *)
(* the redirect URI is blank, in both cases without a URL; when it         *)
(* succeeds, the query of the URL holds client_id and redirect_uri, and    *)
(* holds state exactly when a state was set.                               *)
C34_UrlWithHost ==
    UrlReturned
    => IF IsBlank(cred.client_id) THEN FormFailedNaming("client_id")
       ELSE IF IsBlank(cred.redirect_uri) THEN FormFailedNaming("redirect_uri")
       ELSE ret.outcome = "ok"
            => /\ {"client_id", "redirect_uri"} \subseteq QueryKeys
               /\ "state" \in QueryKeys <=> IsSome(cred.state)
               /\ QueryKeys \subseteq {"client_id", "redirect_uri", "state"}

(* a URL returned for a credential with a state, whose query holds it *)
C34_Witness ==
    /\ UrlReturned /\ ret.outcome = "ok"
    /\ IsSome(cred.state)
    /\ "state" \in QueryKeys

(* the redirect_uri error returned to a caller whose client id is set *)
C34_WitnessBlankRedirect ==
    /\ UrlReturned
    /\ ~IsBlank(cred.client_id)
    /\ IsBlank(cred.redirect_uri)
    /\ FormFailedNaming("redirect_uri")

-----------------------------------------------------------------------------
(* Refreshes that fail *)

SilentFailed(m) ==
    /\ GetTokenSilentOnBuilt(m) \/ Respond(m)
    /\ pc'[m] = "idle"
    /\ ret'.mode = m
    /\ ret'.op = "get_token_silent"
    /\ ret'.outcome = "error"

(* C35: when get_token_silent (or get_token_silent_async) needs a new      *)
(* token and the validation, the request or the parsing of the reply       *)
(* fails, the call returns the error and no token, stores nothing, and     *)
(* every entry of the cache, the one of the credential's identity          *)
(* included, is still there with the same token.                           *)
C35_FailedRefreshKeepsCache ==
    [][\A m \in Modes :
         SilentFailed(m)
         => /\ IsSome(ret'.err)
            /\ ret'.token = None
            /\ DOMAIN cache' = DOMAIN cache
            /\ \A id \in DOMAIN cache : cache'[id] = cache[id]]_vars

(* the stale entry of a credential whose refresh failed at validation,     *)
(* after an earlier refresh of it failed at the endpoint                   *)
C35_Witness ==
    /\ ret.op = "get_token_silent"
    /\ ret.outcome = "error"
    /\ Unwrap(ret.err).kind = "RequiredValue"
    /\ posts >= 2
    /\ cache_id(cred) \in DOMAIN cache
    /\ is_expired_sub(cache[cache_id(cred)], MarginSeconds, now)

-----------------------------------------------------------------------------
(* Repeated serialization *)

(* what form_urlencode returns on the credential as constructed, before    *)
(* any other call                                                          *)
FirstForm == form_urlencode(cred, NewSerializer).res

(* C36: every call of form_urlencode on a credential whose fields no       *)
(* caller changes returns what the first call returned, the same map       *)
(* (same keys, same values, each scope once) or the same error, whatever   *)
(* uri and form_urlencode calls, failed ones included, were made before    *)
(* it and whatever they left in the serializer.                            *)
C36_FormUrlencodeRepeatable ==
    [][CallFormUrlencode
       => /\ ret' = ReturnedResult("form_urlencode", FirstForm)
          /\ FirstForm' = FirstForm]_vars

(* a form returned with each scope once by a serializer that earlier calls *)
(* had filled: it holds the endpoints uri wrote before this call           *)
C36_Witness ==
    /\ FormOk
    /\ SerHas(serializer, "TokenUrl")
    /\ Len(serializer.scopes) = 2
    /\ Unwrap(ret.value)["scope"] = "User.Read Mail.Read"

(* the same error returned again by a call made after uri and after a      *)
(* failed call had left their values in the serializer                     *)
C36_WitnessFailed ==
    /\ FormReturned /\ ret.outcome = "error"
    /\ SerHas(serializer, "TokenUrl")
    /\ SerHas(serializer, "GrantType")

====
